---- MODULE Spec2Model ----
(***************************************************************************)
(* Thinkle: the agent orchestration graph.                                 *)
(*   planner -> one scout per planned task -> evaluator (llm, router,      *)
(*   follow-up scouts, clear_tasks) -> writer.                             *)
(* A scout is the tool-invocation loop agent -> tools -> after_tools ->    *)
(* agent ... -> final built by scout_node.  The language model and the     *)
(* search tools are external: their replies are chosen nondeterministically*)
(* from the bounded sets below.                                            *)
(***************************************************************************)
EXTENDS Integers, Sequences, FiniteSets, TLC

VARIABLES
    stage,      \* node of the top-level graph that runs next
    config,     \* the loaded ThinkleConfig (only max_tasks is read by the graph)
    pipeline,   \* the channels of the top-level graph: those of PlannerState
                \* (ScoutTasks, NewsStories, Report) and those the evaluator
                \* node's EvaluatorState adds (InvestigatorTasks,
                \* followup_cycles, messages)
    scouts,     \* the scout instances of the current fan-out, in Send order
    evaluator,  \* EvaluatorState plus the evaluator subgraph's position
    fault_budget, \* number of tool calls that may still raise in this run
    parallel_budget, \* number of replies that may still carry several tool calls
    report_file,  \* the saved newsletter: << >> (no file) or <<text>>
    probe,      \* a function applied on its own: its arguments and its result
    trace       \* observation counters (not program state)

vars == <<stage, config, pipeline, scouts, evaluator, fault_budget,
          parallel_budget, report_file, probe, trace>>

(***************************************************************************)
(* Bounds of the model.                                                    *)
(***************************************************************************)
\* longest task list the planner model returns
MaxPlan == 2
\* longest investigator-task list the evaluator model returns in one pass
MaxInvestigator == 2
\* longest story list one model reply carries
MaxStories == 1
\* tool calls that may raise in one run
MaxToolFaults == 1
\* longest interest string, in characters
MaxInterestLen == 2
\* longest interests list of a configuration
MaxInterests == 2
\* most tool calls one agent reply carries: bind_tools(all_tools,
\* parallel_tool_calls=False) asks the service for one call a reply, and
\* nothing in the loop checks the number a reply holds
MaxToolCallsPerMessage == 2
\* replies with more than one tool call that the service gives in a run
MaxParallelReplies == 1

(***************************************************************************)
(* Program constants.                                                      *)
(***************************************************************************)
\* after_tools routes back to the agent while tool_iterations < 3
ToolIterationCap == 3
\* router_node dispatches follow-ups while followup_cycles < 1
FollowupCap == 1
\* ThinkleConfig.max_tasks defaults to 1
DefaultMaxTasks == 1

(***************************************************************************)
(* Data model (agents/states.py).                                          *)
(***************************************************************************)
Topics == <<"AI", "Robotics">>

TopicSet == {Topics[i] : i \in 1..Len(Topics)}


ResearchTask(topic, info) == [topic |-> topic, additional_info |-> info]

NewsStory(topic, score) == [topic |-> topic, score |-> score]

\* the stories a model reply may carry: score is a plain int in the schema, so
\* a reply may hold a score outside 1..10, and topic is a plain string
Stories == {NewsStory("AI", 5), NewsStory("Robotics", 11)}

\* state.get(key, default) on a channel that may hold no value yet:
\* an optional value is << >> (unset) or <<v>>
Get(opt, default) == IF opt = << >> THEN default ELSE opt[1]

RECURSIVE SeqsUpTo(_, _)
SeqsUpTo(S, n) ==
    IF n = 0 THEN {<< >>}
    ELSE LET shorter == SeqsUpTo(S, n - 1)
         IN  shorter \cup {Append(q, x) : q \in {r \in shorter : Len(r) = n - 1}, x \in S}

\* ScoutOutput.NewsStories / EvaluatorOutput.NewsStories as a model may return them
StoryLists == SeqsUpTo(Stories, MaxStories)

RECURSIVE Concat(_)
\* a plain channel instead of a reducer: the last write stands
Concat_last_write(lists) ==
    IF lists = << >> THEN << >> ELSE lists[Len(lists)]

\* operator.add over the results of the tasks of one superstep, in task order
Concat(lists) ==
    IF lists = << >> THEN << >> ELSE Head(lists) \o Concat(Tail(lists))


(***************************************************************************)
(* Messages (the add_messages channel holds them in order).                *)
(***************************************************************************)
AIMessage(n) == [type |-> "ai", tool_calls |-> n, status |-> "ok"]

ToolMessage(status) == [type |-> "tool", tool_calls |-> 0, status |-> status]

\* the status message clear_tasks_node appends
HumanMessage(kind, content) ==
    [type |-> "human", tool_calls |-> 0, status |-> kind, content |-> content]

\* what a model call with tools bound may answer
AgentReplies == {AIMessage(n) : n \in 0..MaxToolCallsPerMessage}

(***************************************************************************)
(* final_step's fallback: the raw reply as a sequence of tokens.           *)
(***************************************************************************)
Tok(kind) == [tok |-> kind, stories |-> << >>]

\* the JSON array elements of a story list: each story is an object of its
\* own, with its braces, and the stories are separated by commas
RECURSIVE StoryObjects(_)
StoryObjects(stories) ==
    IF stories = << >> THEN << >>
    ELSE <<Tok("{"), [tok |-> "story", stories |-> <<stories[1]>>], Tok("}")>>
         \o (IF Len(stories) > 1 THEN <<Tok(",")>> ELSE << >>)
         \o StoryObjects(Tail(stories))

\* the members "NewsStories": [...], "Explanation": "..." of a conformant
\* object: the text up to the array, the story objects, the text after it
Body(stories) ==
    <<Tok("members[")>> \o StoryObjects(stories) \o <<Tok("]members")>>

Fenced(block) == <<Tok("fence")>> \o block \o <<Tok("fence")>>

Object(stories) == <<Tok("{")>> \o Body(stories) \o <<Tok("}")>>

\* a conformant object in which a string value (the explanation) contains the
\* characters ```: the members up to and into that string, the three
\* backticks, the rest of the string and of the members
ObjectQuoting(stories) ==
    <<Tok("{"), Tok("members[")>> \o StoryObjects(stories)
        \o <<Tok("]members<"), Tok("fence"), Tok(">members"), Tok("}")>>

\* replies the unstructured call may give
RawContents ==
    UNION {
        { Object(s),
          Fenced(<<Tok("json")>> \o Object(s)),
          <<Tok("prose")>> \o Fenced(Object(s)) \o <<Tok("prose")>>,
          <<Tok("prose")>> \o Object(s) \o <<Tok("prose")>>,
          <<Tok("fence")>> \o Object(s),
          <<Tok("{")>> \o Body(s),
          Object(s) \o <<Tok("prose")>> \o Object(s),
          Fenced(Object(s)) \o Fenced(Object(<< >>)),
          ObjectQuoting(s),
          Fenced(ObjectQuoting(s)) } : s \in StoryLists }
    \cup { <<Tok("prose")>>,
           <<Tok("{"), Tok("badbody"), Tok("}")>>,
           <<Tok("{"), Tok("}")>>,
           Fenced(<<Tok("prose")>>) }

Positions(content, kind) == {k \in 1..Len(content) : content[k].tok = kind}

Minimum(S) == CHOOSE x \in S : \A y \in S : x <= y

Maximum(S) == CHOOSE x \in S : \A y \in S : x >= y

\* re.search(r"```(?:json)?\s*([\s\S]*?)```", content): group(1) of the first
\* fence that has a closing fence after it, or content when nothing matches
StripFence(content) ==
    LET fences == Positions(content, "fence")
    IN  IF Cardinality(fences) < 2 THEN content
        ELSE LET open  == Minimum(fences)
                 close == Minimum(fences \ {open})
                 from  == IF open + 1 < close /\ content[open + 1].tok = "json"
                          THEN open + 2 ELSE open + 1
             IN  SubSeq(content, from, close - 1)

\* content.find("{") .. content.rfind("}"): every brace of the text counts,
\* those of the story objects included
Candidate(content) ==
    LET opens  == Positions(content, "{")
        closes == Positions(content, "}")
    IN  IF opens # {} /\ closes # {} /\ Maximum(closes) > Minimum(opens)
        THEN SubSeq(content, Minimum(opens), Maximum(closes))
        ELSE content

\* the text between the outer braces of a candidate
Inner(candidate) == SubSeq(candidate, 2, Len(candidate) - 1)

\* the end of the members after the array: plain, or with ``` in a string
MembersEnd(inner) ==
    IF Len(inner) >= 4 /\ inner[Len(inner) - 2].tok = "]members<"
                       /\ inner[Len(inner) - 1].tok = "fence"
                       /\ inner[Len(inner)].tok = ">members"
    THEN 3
    ELSE IF Len(inner) >= 2 /\ inner[Len(inner)].tok = "]members" THEN 1
    ELSE 0

\* the text is the members NewsStories and Explanation around an array
IsMembers(inner) ==
    Len(inner) >= 2 /\ inner[1].tok = "members[" /\ MembersEnd(inner) > 0

\* the text of the array between the two parts of the members
ArrayText(inner) == SubSeq(inner, 2, Len(inner) - MembersEnd(inner))

\* the array text read as a list of story objects
RECURSIVE ParseStories(_)
ParseStories(tokens) ==
    IF tokens = << >> THEN [ok |-> TRUE, stories |-> << >>]
    ELSE IF Len(tokens) >= 3 /\ tokens[1].tok = "{" /\ tokens[2].tok = "story"
                             /\ tokens[3].tok = "}"
    THEN IF Len(tokens) = 3 THEN [ok |-> TRUE, stories |-> tokens[2].stories]
         ELSE IF tokens[4].tok = ","
         THEN LET rest == ParseStories(SubSeq(tokens, 5, Len(tokens)))
              IN  [ok |-> rest.ok /\ rest.stories # << >>,
                   stories |-> tokens[2].stories \o rest.stories]
         ELSE [ok |-> FALSE, stories |-> << >>]
    ELSE [ok |-> FALSE, stories |-> << >>]

\* json.loads succeeds on exactly one well-formed object
JsonLoads(candidate) ==
    /\ Len(candidate) >= 2
    /\ candidate[1].tok = "{"
    /\ candidate[Len(candidate)].tok = "}"
    /\ LET inner == Inner(candidate)
       IN  \/ inner = << >>
           \/ inner = <<Tok("badbody")>>
           \/ IsMembers(inner) /\ ParseStories(ArrayText(inner)).ok

\* ScoutOutput.model_validate: NewsStories and Explanation are required
ModelValidate(candidate) == IsMembers(Inner(candidate))

\* lines 66-90 of final_step: the parsed stories, or the ValueError raised
FallbackParse(content) ==
    LET candidate == Candidate(StripFence(content))
    IN  IF ~JsonLoads(candidate)
        THEN [ok |-> FALSE, error |-> "ValueError: not valid JSON", NewsStories |-> << >>]
        ELSE IF ~ModelValidate(candidate)
        THEN [ok |-> FALSE, error |-> "ValueError: failed validation", NewsStories |-> << >>]
        ELSE [ok |-> TRUE, error |-> "",
              NewsStories |-> ParseStories(ArrayText(Inner(candidate))).stories]

\* outcomes of llm.with_structured_output(ScoutOutput).invoke(messages)
\* (a reply that parses, or an exception: the model call itself failed, or
\* its reply could not be parsed into the schema)
StructuredReplies ==
    {[raised |-> FALSE, exception |-> "", NewsStories |-> stories] :
        stories \in StoryLists}
    \cup {[raised |-> TRUE, exception |-> exception, NewsStories |-> << >>] :
             exception \in {"APIConnectionError", "OutputParserException"}}

\* outcomes of llm.invoke(messages)
UnstructuredReplies ==
    {[raised |-> FALSE, content |-> content] : content \in RawContents}
    \cup {[raised |-> TRUE, content |-> << >>]}

\* the unstructured call is not made
NotCalled == [raised |-> FALSE, content |-> << >>]

\* final_step on the two replies: the stories returned or the exception
\* raised, and the number of model calls made (the unstructured call is made
\* only in the except branch)
final_step(structured, unstructured) ==
    IF ~structured.raised
    THEN [ok |-> TRUE, error |-> "", NewsStories |-> structured.NewsStories,
          calls |-> 1]
    ELSE IF unstructured.raised
    THEN [ok |-> FALSE, error |-> "ModelError", NewsStories |-> << >>, calls |-> 2]
    ELSE LET r == FallbackParse(unstructured.content)
         IN  [ok |-> r.ok, error |-> r.error, NewsStories |-> r.NewsStories,
              calls |-> 2]

\* no function is applied on its own
NoProbe == << >>

(***************************************************************************)
(* The scout subgraph (agents/scout.py).                                   *)
(***************************************************************************)
\* the subgraph's AgentState when scout_node is entered with a Send payload:
\* none of the payload's keys is a channel of AgentState
NewScout(task, hasConfig) ==
    [ AssignedTask    |-> task,
      config          |-> hasConfig,
      node            |-> "agent",
      messages        |-> << >>,
      tool_iterations |-> << >>,
      NewsStories     |-> << >>,
      error           |-> "",
      agent_calls     |-> 0,
      toolfree_calls  |-> 0,
      final_runs      |-> 0,
      tool_runs       |-> 0 ]

\* langgraph.prebuilt.tools_condition: "tools" when the last message carries
\* tool calls, otherwise END
tools_condition(messages) ==
    IF messages[Len(messages)].tool_calls > 0 THEN "tools" ELSE "end"

\* the increment forgotten: the counter never moves
after_tools_no_increment(s) == Get(s.tool_iterations, 0)

\* after_tools: count = s.get("tool_iterations", 0) + 1
after_tools(s) == Get(s.tool_iterations, 0) + 1

\* <= for <: one tool round too many
after_tools_route_inclusive(s) ==
    IF Get(s.tool_iterations, 0) <= ToolIterationCap THEN "agent" ELSE "final"

\* the conditional edge out of after_tools
after_tools_route(s) ==
    IF Get(s.tool_iterations, 0) < ToolIterationCap THEN "agent" ELSE "final"

ScoutIds == 1..Len(scouts)

\* an instance takes steps while the superstep that started it is running;
\* the runtime stops the superstep when an instance has raised, and what the
\* other instances do after that is discarded
Running(i) ==
    /\ i \in ScoutIds
    /\ stage \in {"scout", "evaluator"}
    /\ \A j \in ScoutIds : scouts[j].node # "error"

\* the exception caught and the loop ended as if it had finished
Fail_swallowed(s, why) == [s EXCEPT !.node = "end", !.error = why]

\* an exception raised in a node of the loop ends the loop with that exception
Fail(s, why) == [s EXCEPT !.node = "error", !.error = why]

\* observation of a step of instance i: it is noted when the step brings it
\* to END, and a model call that raised is noted (the loop raised, or the
\* structured call of final_step raised and its except clause was entered)
Observed(i) ==
    [trace EXCEPT
        !.completion  = IF scouts'[i].node = "end" THEN Append(@, i) ELSE @,
        !.call_failed = @ \/ scouts'[i].node = "error"
                          \/ scouts'[i].toolfree_calls > scouts'[i].final_runs]

\* agent_step followed by the tools_condition edge; the reply carries the
\* number of tool calls the service chose to put in it
AgentStep(i) ==
    /\ Running(i)
    /\ scouts[i].node = "agent"
    /\ LET s == [scouts[i] EXCEPT !.agent_calls = @ + 1]
       IN  \/ \E ai \in AgentReplies :
                 LET msgs == Append(s.messages, ai)
                 IN  /\ ai.tool_calls > 1 => parallel_budget > 0
                     /\ parallel_budget' = IF ai.tool_calls > 1
                                           THEN parallel_budget - 1
                                           ELSE parallel_budget
                     /\ scouts' = [scouts EXCEPT ![i] =
                            [s EXCEPT !.messages = msgs, !.node = tools_condition(msgs)]]
           \/ /\ scouts' = [scouts EXCEPT ![i] = Fail(s, "ModelError")]
              /\ UNCHANGED parallel_budget
    /\ trace' = Observed(i)
    /\ UNCHANGED <<stage, config, pipeline, evaluator, fault_budget,
                   report_file, probe>>

\* ToolNode(all_tools): runs every call the last message requests and
\* appends one ToolMessage per call, in call order; a raising tool is
\* answered with an error ToolMessage (handle_tool_errors defaults to True)
ToolsStep(i) ==
    /\ Running(i)
    /\ scouts[i].node = "tools"
    /\ LET calls == scouts[i].messages[Len(scouts[i].messages)].tool_calls
       IN  \E statuses \in [1..calls -> {"success", "error"}] :
              LET errors == Cardinality({k \in 1..calls : statuses[k] = "error"})
              IN  /\ errors <= fault_budget
                  /\ fault_budget' = fault_budget - errors
                  /\ scouts' = [scouts EXCEPT ![i] =
                         [@ EXCEPT !.messages =
                                       @ \o [k \in 1..calls |-> ToolMessage(statuses[k])],
                                   !.tool_runs = @ + calls,
                                   !.node = "after_tools"]]
                  /\ trace' = [trace EXCEPT !.call_failed = @ \/ errors > 0]
    /\ UNCHANGED <<stage, config, pipeline, evaluator, parallel_budget,
                   report_file, probe>>

\* after_tools followed by its conditional edge
AfterTools(i) ==
    /\ Running(i)
    /\ scouts[i].node = "after_tools"
    /\ LET s == [scouts[i] EXCEPT !.tool_iterations = <<after_tools(scouts[i])>>]
       IN  scouts' = [scouts EXCEPT ![i] = [s EXCEPT !.node = after_tools_route(s)]]
    /\ UNCHANGED <<stage, config, pipeline, evaluator, fault_budget, parallel_budget, trace,
                   report_file, probe>>

\* final_step up to the structured call: its reply is returned as the
\* step's result; when the call raises, the except clause is entered and the
\* step goes on with the unstructured call, which other instances of the
\* superstep may precede
FinalStep(i) ==
    /\ Running(i)
    /\ scouts[i].node = "final"
    /\ \E structured \in StructuredReplies :
          LET s == [scouts[i] EXCEPT !.toolfree_calls = @ + 1]
              r == final_step(structured, NotCalled)
          IN  scouts' = [scouts EXCEPT ![i] =
                  IF structured.raised
                  THEN [s EXCEPT !.node = "final_fallback"]
                  ELSE [s EXCEPT !.final_runs = @ + 1,
                                 !.NewsStories = r.NewsStories, !.node = "end"]]
    /\ trace' = Observed(i)
    /\ UNCHANGED <<stage, config, pipeline, evaluator, fault_budget, parallel_budget,
                   report_file, probe>>

\* the except clause of final_step: the unstructured call and the lenient
\* parse of its reply
FinalFallback(i) ==
    /\ Running(i)
    /\ scouts[i].node = "final_fallback"
    /\ \E unstructured \in UnstructuredReplies :
          LET structured == CHOOSE reply \in StructuredReplies : reply.raised
              r == final_step(structured, unstructured)
              s == [scouts[i] EXCEPT !.final_runs = @ + 1,
                                     !.toolfree_calls = @ + 1]
          IN  scouts' = [scouts EXCEPT ![i] =
                  IF r.ok
                  THEN [s EXCEPT !.NewsStories = r.NewsStories, !.node = "end"]
                  ELSE Fail(s, r.error)]
    /\ trace' = Observed(i)
    /\ UNCHANGED <<stage, config, pipeline, evaluator, fault_budget, parallel_budget,
                   report_file, probe>>

ScoutEnded(s) == s.node = "end"

ScoutFailed(s) == s.node = "error"


\* every instance of the superstep has completed
AllEnded == \A i \in ScoutIds : ScoutEnded(scouts[i])

SomeFailed == \E i \in ScoutIds : ScoutFailed(scouts[i])

\* the NewsStories write of each instance of one superstep, in Send order
Batches == [i \in ScoutIds |-> scouts[i].NewsStories]

\* the writes applied in the order in which the instances completed
ScoutStories_completion_order ==
    Concat([k \in 1..Len(trace.completion) |->
               scouts[trace.completion[k]].NewsStories])

\* the NewsStories writes of the instances of one superstep, in Send order
ScoutStories == Concat([i \in ScoutIds |-> scouts[i].NewsStories])

\* the messages writes of the instances of one superstep, in Send order
ScoutMessages == Concat([i \in ScoutIds |-> scouts[i].messages])

(***************************************************************************)
(* Replies of the planner and evaluator models.                            *)
(***************************************************************************)
TopicAt(k) == Topics[((k - 1) % Len(Topics)) + 1]

\* PlannerOutput.ScoutTasks: one task per interest, any length up to MaxPlan
PlannerOutputs ==
    {[k \in 1..n |-> ResearchTask(TopicAt(k), "guidance")] : n \in 0..MaxPlan}

\* EvaluatorOutput.InvestigatorTasks
InvestigatorOutputs ==
    {[k \in 1..n |-> ResearchTask(TopicAt(k), "follow-up")] : n \in 0..MaxInvestigator}

\* EvaluatorOutput.NewsStories: the model keeps all, none, or the first story
Curations(stories) ==
    {<< >>, stories, IF stories = << >> THEN << >> ELSE <<Head(stories)>>}

(***************************************************************************)
(* Top-level graph (generate_newsletter.py) and planner (agents/planner.py)*)
(***************************************************************************)
\* planner_node: the stored task list is the model's list
planner_node(response) == response

\* a fan-out that sends a general task when the plan is empty
generate_scout_tasks_fallback(state) ==
    IF state.ScoutTasks = << >>
    THEN <<NewScout(ResearchTask(TopicAt(1), "guidance"), TRUE)>>
    ELSE [k \in 1..Len(state.ScoutTasks) |-> NewScout(state.ScoutTasks[k], TRUE)]

\* generate_scout_tasks: one Send per stored task, carrying the config
generate_scout_tasks(state) ==
    [k \in 1..Len(state.ScoutTasks) |-> NewScout(state.ScoutTasks[k], TRUE)]

\* the channels of the top-level graph: the keys of PlannerState and, because
\* evaluator_node is annotated with EvaluatorState, the keys of that schema
\* too (InvestigatorTasks, followup_cycles and the add_messages channel
\* messages); main's initial state sets the first three, empty
InitialPipeline ==
    [ ScoutTasks        |-> << >>,
      NewsStories       |-> << >>,
      Report            |-> "",
      messages          |-> << >>,
      InvestigatorTasks |-> << >>,
      followup_cycles   |-> << >> ]

InitialEvaluator ==
    [ NewsStories       |-> << >>,
      InvestigatorTasks |-> << >>,
      followup_cycles   |-> << >>,
      messages          |-> << >>,
      node              |-> "idle" ]

\* the planner node and its conditional edge; no Send means no next node
PlannerStep ==
    /\ stage = "planner"
    /\ \/ \E response \in PlannerOutputs :
             LET state == [pipeline EXCEPT !.ScoutTasks = planner_node(response)]
                 sends == generate_scout_tasks(state)
             IN  /\ pipeline' = state
                 /\ scouts' = sends
                 /\ stage' = IF sends = << >> THEN "end" ELSE "scout"
                 /\ trace' = [trace EXCEPT !.planned = Len(sends),
                                           !.completion = << >>]
          \/ /\ stage' = "failed"
             /\ trace' = [trace EXCEPT !.call_failed = TRUE]
             /\ UNCHANGED <<pipeline, scouts>>
    /\ UNCHANGED <<config, evaluator, fault_budget, parallel_budget, report_file, probe>>

\* the superstep of the first-round scouts ends: of the keys each instance
\* returns, NewsStories and messages are channels of the top-level graph and
\* take the writes in Send order; the evaluator then starts from the
\* channels that are keys of EvaluatorState
ScoutFanIn ==
    /\ stage = "scout"
    /\ AllEnded
    /\ pipeline' = [pipeline EXCEPT !.NewsStories = @ \o ScoutStories,
                                    !.messages = @ \o ScoutMessages]
    /\ evaluator' = [InitialEvaluator EXCEPT
                        !.NewsStories = pipeline'.NewsStories,
                        !.InvestigatorTasks = pipeline.InvestigatorTasks,
                        !.followup_cycles = pipeline.followup_cycles,
                        !.messages = pipeline'.messages,
                        !.node = "llm"]
    /\ scouts' = << >>
    /\ stage' = "evaluator"
    /\ trace' = [trace EXCEPT !.base = pipeline.NewsStories, !.batches = Batches]
    /\ UNCHANGED <<config, fault_budget, parallel_budget, report_file, probe>>

\* an exception in any scout instance aborts the run
ScoutAbort ==
    /\ stage \in {"scout", "evaluator"}
    /\ SomeFailed
    /\ stage' = "failed"
    /\ UNCHANGED <<config, pipeline, scouts, evaluator, fault_budget, parallel_budget, trace,
                   report_file, probe>>

(***************************************************************************)
(* The evaluator subgraph (agents/evaluator.py).                           *)
(***************************************************************************)
\* <= for <: a follow-up round is still granted at the cap
router_node_inclusive(state) ==
    IF state.InvestigatorTasks # << >> /\ Get(state.followup_cycles, 0) <= FollowupCap
    THEN [k \in 1..Len(state.InvestigatorTasks) |->
             NewScout(ResearchTask(state.InvestigatorTasks[k].topic,
                                   state.InvestigatorTasks[k].additional_info), FALSE)]
    ELSE << >>

\* the cycle check dropped: follow-ups whenever tasks are proposed
router_node_no_cap(state) ==
    [k \in 1..Len(state.InvestigatorTasks) |->
        NewScout(ResearchTask(state.InvestigatorTasks[k].topic,
                              state.InvestigatorTasks[k].additional_info), FALSE)]

\* router_node: the scouts to start, or << >> for "end"
router_node(state) ==
    IF state.InvestigatorTasks # << >> /\ Get(state.followup_cycles, 0) < FollowupCap
    THEN [k \in 1..Len(state.InvestigatorTasks) |->
             NewScout(ResearchTask(state.InvestigatorTasks[k].topic,
                                   state.InvestigatorTasks[k].additional_info), FALSE)]
    ELSE << >>

\* an llm_node whose NewsStories replaces the collection
llm_node_replacing(state, response) ==
    [state EXCEPT !.NewsStories = response.NewsStories,
                  !.InvestigatorTasks = response.InvestigatorTasks]

\* llm_node's update: NewsStories goes through operator.add, InvestigatorTasks
\* is replaced
llm_node(state, response) ==
    [state EXCEPT !.NewsStories = @ \o response.NewsStories,
                  !.InvestigatorTasks = response.InvestigatorTasks]

\* the status message of clear_tasks_node: the new cycle number, the length
\* of the whole story list under "appended_count", and the last three stories
\* (stories[-3:]) as the preview
followup_status(state) ==
    LET stories == state.NewsStories
    IN  HumanMessage("followup_complete",
            [ followup_cycles  |-> Get(state.followup_cycles, 0) + 1,
              appended_count   |-> Len(stories),
              appended_preview |->
                  SubSeq(stories, Maximum({1, Len(stories) - 2}), Len(stories)) ])

\* the new cycle count computed for the message but not stored
clear_tasks_node_no_increment(state) ==
    [state EXCEPT !.InvestigatorTasks = << >>,
                  !.messages = Append(@, followup_status(state))]

\* the completed tasks left in place
clear_tasks_node_keeps_tasks(state) ==
    [state EXCEPT !.followup_cycles = <<Get(@, 0) + 1>>,
                  !.messages = Append(@, followup_status(state))]

\* clear_tasks_node's update
clear_tasks_node(state) ==
    [state EXCEPT !.InvestigatorTasks = << >>,
                  !.followup_cycles = <<Get(@, 0) + 1>>,
                  !.messages = Append(@, followup_status(state))]

\* llm_node followed by the router edge
LlmStep ==
    /\ stage = "evaluator"
    /\ evaluator.node = "llm"
    /\ \/ \E stories \in Curations(evaluator.NewsStories), tasks \in InvestigatorOutputs :
             LET state == llm_node(evaluator,
                              [NewsStories |-> stories, InvestigatorTasks |-> tasks])
                 sends == router_node(state)
             IN  /\ evaluator' = [state EXCEPT !.node =
                                     IF sends = << >> THEN "end" ELSE "scout"]
                 /\ scouts' = sends
                 /\ trace' = [trace EXCEPT
                        !.llm_passes = @ + 1,
                        !.completion = << >>,
                        !.base = << >>,
                        !.batches = << >>,
                        !.curated = stories,
                        !.followup_rounds = IF sends = << >> THEN @ ELSE @ + 1,
                        !.dispatched = Len(sends),
                        !.proposed = Len(tasks),
                        !.one_task_model = @ /\ Len(tasks) = 1,
                        !.already_completed =
                            @ \/ Len(evaluator.InvestigatorTasks) > 0]
                 /\ stage' = stage
          \/ /\ stage' = "failed"
             /\ trace' = [trace EXCEPT !.call_failed = TRUE]
             /\ UNCHANGED <<evaluator, scouts>>
    /\ UNCHANGED <<config, pipeline, fault_budget, parallel_budget, report_file, probe>>

\* the superstep of the follow-up scouts ends: each instance's final state is
\* written to EvaluatorState, which has the keys NewsStories and messages
FollowupFanIn ==
    /\ stage = "evaluator"
    /\ evaluator.node = "scout"
    /\ AllEnded
    /\ evaluator' = [evaluator EXCEPT !.NewsStories = @ \o ScoutStories,
                                      !.messages = @ \o ScoutMessages,
                                      !.node = "clear_tasks"]
    /\ scouts' = << >>
    /\ trace' = [trace EXCEPT !.base = evaluator.NewsStories, !.batches = Batches]
    /\ UNCHANGED <<stage, config, pipeline, fault_budget, parallel_budget, report_file, probe>>

\* clear_tasks entered from the router at the side of the follow-up scouts
\* (an edge from llm in place of the edge from scout)
ClearTasksStep_beside_scouts ==
    /\ stage = "evaluator"
    /\ evaluator.node = "scout"
    /\ evaluator' = [clear_tasks_node(evaluator) EXCEPT !.node = "llm"]
    /\ trace' = [trace EXCEPT !.clear_runs = @ + 1,
                              !.completion = << >>,
                              !.base = << >>,
                              !.batches = << >>]
    /\ UNCHANGED <<stage, config, pipeline, scouts, fault_budget, parallel_budget,
                   report_file, probe>>

\* clear_tasks_node, entered over the edge from scout when the superstep of
\* the follow-up scouts has ended, followed by its edge to llm
ClearTasksStep ==
    /\ stage = "evaluator"
    /\ evaluator.node = "clear_tasks"
    /\ evaluator' = [clear_tasks_node(evaluator) EXCEPT !.node = "llm"]
    /\ trace' = [trace EXCEPT !.clear_runs = @ + 1,
                              !.completion = << >>,
                              !.base = << >>,
                              !.batches = << >>]
    /\ UNCHANGED <<stage, config, pipeline, scouts, fault_budget, parallel_budget,
                   report_file, probe>>

\* an evaluator node that also writes a report
EvaluatorReturn_drafting ==
    /\ stage = "evaluator"
    /\ evaluator.node = "end"
    /\ pipeline' = [pipeline EXCEPT !.NewsStories = @ \o evaluator.NewsStories,
                                    !.InvestigatorTasks = evaluator.InvestigatorTasks,
                                    !.followup_cycles = evaluator.followup_cycles,
                                    !.messages = evaluator.messages,
                                    !.Report = "draft"]
    /\ stage' = "writer"
    /\ UNCHANGED <<config, scouts, evaluator, fault_budget, parallel_budget, trace,
                   report_file, probe>>

\* the evaluator subgraph has reached END: its state is the node's output.
\* NewsStories takes it through operator.add; messages through add_messages,
\* which keeps one copy of a message it already holds (same id), so the
\* channel then holds the subgraph's list; the other keys are replaced
EvaluatorReturn ==
    /\ stage = "evaluator"
    /\ evaluator.node = "end"
    /\ pipeline' = [pipeline EXCEPT !.NewsStories = @ \o evaluator.NewsStories,
                                    !.InvestigatorTasks = evaluator.InvestigatorTasks,
                                    !.followup_cycles = evaluator.followup_cycles,
                                    !.messages = evaluator.messages]
    /\ stage' = "writer"
    /\ UNCHANGED <<config, scouts, evaluator, fault_budget, parallel_budget, trace,
                   report_file, probe>>

(***************************************************************************)
(* Writer (agents/writer.py).                                              *)
(***************************************************************************)
WriterStep ==
    /\ stage = "writer"
    /\ \/ /\ pipeline' = [pipeline EXCEPT !.Report = "report"]
          /\ trace' = [trace EXCEPT !.writer_runs = @ + 1,
                                    !.writer_input = pipeline.NewsStories]
          /\ stage' = "end"
       \/ /\ stage' = "failed"
          /\ trace' = [trace EXCEPT !.call_failed = TRUE]
          /\ UNCHANGED pipeline
    /\ UNCHANGED <<config, scouts, evaluator, fault_budget, parallel_budget, report_file, probe>>

(***************************************************************************)
(* main (generate_newsletter.py): the report file.                         *)
(***************************************************************************)
\* the file written although the graph invocation raised
SaveReport_always ==
    /\ stage \in {"end", "failed"}
    /\ report_file = << >>
    /\ report_file' = <<pipeline.Report>>
    /\ UNCHANGED <<stage, config, pipeline, scouts, evaluator, fault_budget, parallel_budget,
                   trace, probe>>

\* after agent_graph.invoke has returned, result.get("Report", "") is written
\* to data/outputs/newsletter-<timestamp>.md
SaveReport ==
    /\ stage = "end"
    /\ report_file = << >>
    /\ report_file' = <<pipeline.Report>>
    /\ UNCHANGED <<stage, config, pipeline, scouts, evaluator, fault_budget, parallel_budget,
                   trace, probe>>

(***************************************************************************)
(* Specification.                                                          *)
(***************************************************************************)
InitialTrace ==
    [ planned           |-> 0,
      llm_passes        |-> 0,
      followup_rounds   |-> 0,
      dispatched        |-> 0,
      proposed          |-> 0,
      one_task_model    |-> TRUE,
      already_completed |-> FALSE,
      clear_runs        |-> 0,
      writer_runs       |-> 0,
      writer_input      |-> << >>,
      completion        |-> << >>,
      base              |-> << >>,
      batches           |-> << >>,
      curated           |-> << >>,
      call_failed       |-> FALSE ]

\* a whole run: tool calls may raise, every reply carries at most one tool
\* call (replies with several are explored by ScoutLoopSpec and FanInSpec)
Init ==
    /\ stage = "planner"
    /\ config = [max_tasks |-> DefaultMaxTasks]
    /\ pipeline = InitialPipeline
    /\ scouts = << >>
    /\ evaluator = InitialEvaluator
    /\ fault_budget = MaxToolFaults
    /\ parallel_budget = 0
    /\ report_file = << >>
    /\ probe = NoProbe
    /\ trace = InitialTrace

Next ==
    \/ PlannerStep
    \/ \E i \in ScoutIds : AgentStep(i)
    \/ \E i \in ScoutIds : ToolsStep(i)
    \/ \E i \in ScoutIds : AfterTools(i)
    \/ \E i \in ScoutIds : FinalStep(i)
    \/ \E i \in ScoutIds : FinalFallback(i)
    \/ ScoutFanIn
    \/ ScoutAbort
    \/ LlmStep
    \/ FollowupFanIn
    \/ ClearTasksStep
    \/ EvaluatorReturn
    \/ WriterStep
    \/ SaveReport

Spec == Init /\ [][Next]_vars


\* the runtime runs every node that is enabled
FairSpec == Spec /\ WF_vars(Next)

(***************************************************************************)
(* One scout subgraph on its own: scout_node invoked with a ScoutState.    *)
(***************************************************************************)
ScoutLoopInit ==
    /\ stage = "scout"
    /\ config = [max_tasks |-> DefaultMaxTasks]
    /\ pipeline = InitialPipeline
    /\ \E topic \in TopicSet, hasConfig \in BOOLEAN :
          scouts = <<NewScout(ResearchTask(topic, "guidance"), hasConfig)>>
    /\ evaluator = InitialEvaluator
    /\ fault_budget = MaxToolFaults
    /\ parallel_budget = MaxParallelReplies
    /\ report_file = << >>
    /\ probe = NoProbe
    /\ trace = InitialTrace

ScoutLoopNext ==
    \/ AgentStep(1)
    \/ ToolsStep(1)
    \/ AfterTools(1)
    \/ FinalStep(1)
    \/ FinalFallback(1)

ScoutLoopSpec == ScoutLoopInit /\ [][ScoutLoopNext]_vars

ScoutLoopFair == ScoutLoopSpec /\ WF_vars(ScoutLoopNext)

(***************************************************************************)
(* Configuration (config/config_parser.py): the interests validator.       *)
(* A string is a sequence of characters.                                   *)
(***************************************************************************)
Chars == {"a", "A", " "}

\* the interests lists a configuration file may hold
InterestLists == SeqsUpTo(SeqsUpTo(Chars, MaxInterestLen), MaxInterests)

\* str.lower()
lower(s) == [k \in 1..Len(s) |-> IF s[k] = "A" THEN "a" ELSE s[k]]

\* str.strip(): leading and trailing whitespace removed
strip(s) ==
    LET inked == {k \in 1..Len(s) : s[k] # " "}
    IN  IF inked = {} THEN << >> ELSE SubSeq(s, Minimum(inked), Maximum(inked))

RECURSIVE UniqueInterests(_, _, _)
\* the loop of validate_interests over v from a given seen set and list
UniqueInterests(v, seen, unique_interests) ==
    IF v = << >> THEN unique_interests
    ELSE LET interest == Head(v)
         IN  IF lower(interest) \notin seen
             THEN UniqueInterests(Tail(v), seen \cup {lower(interest)},
                                  Append(unique_interests, strip(interest)))
             ELSE UniqueInterests(Tail(v), seen, unique_interests)

\* ThinkleConfig.validate_interests (and min_length=1 of the field)
validate_interests(v) ==
    IF v = << >>
    THEN [ok |-> FALSE, interests |-> << >>]
    ELSE [ok |-> TRUE, interests |-> UniqueInterests(v, {}, << >>)]

InterestsInit ==
    /\ stage = "load_config"
    /\ config = [max_tasks |-> DefaultMaxTasks]
    /\ pipeline = InitialPipeline
    /\ scouts = << >>
    /\ evaluator = InitialEvaluator
    /\ fault_budget = 0
    /\ parallel_budget = 0
    /\ report_file = << >>
    /\ \E v \in InterestLists : probe = [interests |-> v, result |-> << >>]
    /\ trace = InitialTrace

\* ThinkleConfig(interests=v) as load_config constructs it
ValidateInterests ==
    /\ stage = "load_config"
    /\ probe.result = << >>
    /\ probe' = [probe EXCEPT !.result = <<validate_interests(probe.interests)>>]
    /\ UNCHANGED <<stage, config, pipeline, scouts, evaluator, fault_budget, parallel_budget,
                   report_file, trace>>

InterestsNext == ValidateInterests

InterestsSpec == InterestsInit /\ [][InterestsNext]_vars

(***************************************************************************)
(* final_step on its own: applied to each pair of model replies.           *)
(***************************************************************************)
FinalStepInit ==
    /\ stage = "final_step"
    /\ config = [max_tasks |-> DefaultMaxTasks]
    /\ pipeline = InitialPipeline
    /\ scouts = << >>
    /\ evaluator = InitialEvaluator
    /\ fault_budget = 0
    /\ parallel_budget = 0
    /\ report_file = << >>
    /\ \E structured \in StructuredReplies, unstructured \in UnstructuredReplies :
          probe = [structured |-> structured, unstructured |-> unstructured,
                   result |-> << >>]
    /\ trace = InitialTrace

ApplyFinalStep ==
    /\ stage = "final_step"
    /\ probe.result = << >>
    /\ probe' = [probe EXCEPT
                    !.result = <<final_step(probe.structured, probe.unstructured)>>]
    /\ UNCHANGED <<stage, config, pipeline, scouts, evaluator, fault_budget, parallel_budget,
                   report_file, trace>>

FinalStepNext == ApplyFinalStep

FinalStepSpec == FinalStepInit /\ [][FinalStepNext]_vars

(***************************************************************************)
(* The first fan-out on its own: the scouts of a stored plan run side by   *)
(* side up to the fan-in in front of the evaluator.  The search tools      *)
(* answer every call here; the model may put several tool calls into a     *)
(* reply.                                                                  *)
(***************************************************************************)
FanInInit ==
    /\ stage = "scout"
    /\ config = [max_tasks |-> DefaultMaxTasks]
    /\ \E response \in PlannerOutputs \ {<< >>} :
          /\ pipeline = [InitialPipeline EXCEPT !.ScoutTasks = planner_node(response)]
          /\ scouts = generate_scout_tasks(pipeline)
          /\ trace = [InitialTrace EXCEPT !.planned = Len(response)]
    /\ evaluator = InitialEvaluator
    /\ fault_budget = 0
    /\ parallel_budget = MaxParallelReplies
    /\ report_file = << >>
    /\ probe = NoProbe

FanInNext ==
    \/ \E i \in ScoutIds : AgentStep(i)
    \/ \E i \in ScoutIds : ToolsStep(i)
    \/ \E i \in ScoutIds : AfterTools(i)
    \/ \E i \in ScoutIds : FinalStep(i)
    \/ \E i \in ScoutIds : FinalFallback(i)
    \/ ScoutFanIn
    \/ ScoutAbort

FanInSpec == FanInInit /\ [][FanInNext]_vars

(***************************************************************************)
(* The evaluator subgraph on its own: evaluator_node invoked with the       *)
(* stories gathered so far.  The search tools answer every call here and   *)
(* every reply of a scout carries at most one tool call; tool failures are *)
(* explored by ScoutLoopSpec and Spec, replies with several tool calls by  *)
(* ScoutLoopSpec and FanInSpec.                                            *)
(***************************************************************************)
\* the story collections the stage is started on: none, or one story
EvaluatorInputs == {<< >>} \cup {<<story>> : story \in Stories}

\* the transcript of the scout that gathered them: a story is returned by the
\* final step, which is reached after three tool rounds; a scout whose first
\* reply requests no tool ends without stories
FirstRoundTranscript(stories) ==
    IF stories = << >> THEN <<AIMessage(0)>>
    ELSE <<AIMessage(1), ToolMessage("success"), AIMessage(1), ToolMessage("success"),
           AIMessage(1), ToolMessage("success")>>

EvaluatorInit ==
    /\ stage = "evaluator"
    /\ config = [max_tasks |-> DefaultMaxTasks]
    /\ \E stories \in EvaluatorInputs :
          /\ pipeline = [InitialPipeline EXCEPT
                            !.NewsStories = stories,
                            !.messages = FirstRoundTranscript(stories)]
          /\ evaluator = [InitialEvaluator EXCEPT
                             !.NewsStories = stories,
                             !.messages = FirstRoundTranscript(stories),
                             !.node = "llm"]
    /\ scouts = << >>
    /\ fault_budget = 0
    /\ parallel_budget = 0
    /\ report_file = << >>
    /\ probe = NoProbe
    /\ trace = InitialTrace

EvaluatorNext ==
    \/ LlmStep
    \/ \E i \in ScoutIds : AgentStep(i)
    \/ \E i \in ScoutIds : ToolsStep(i)
    \/ \E i \in ScoutIds : AfterTools(i)
    \/ \E i \in ScoutIds : FinalStep(i)
    \/ \E i \in ScoutIds : FinalFallback(i)
    \/ ScoutAbort
    \/ FollowupFanIn
    \/ ClearTasksStep

EvaluatorSpec == EvaluatorInit /\ [][EvaluatorNext]_vars

EvaluatorFair == EvaluatorSpec /\ WF_vars(EvaluatorNext)

(***************************************************************************)
(* Properties of the tool-invocation loop.                                 *)
(***************************************************************************)
ScoutDone(s) == ScoutEnded(s) \/ ScoutFailed(s)

\* every agent reply received so far requested a tool call
AlwaysCalls(s) ==
    \A k \in 1..Len(s.messages) :
        s.messages[k].type = "ai" => s.messages[k].tool_calls > 0

model_calls(s) == s.agent_calls + s.toolfree_calls

\* C1: whatever the agent replies, also when it requests a tool call on every
\* step, a scout's loop makes at most cap + 1 = 4 agent invocations and
\* eventually stops (at END or with the error it raised).
C1_LoopTerminates ==
    /\ [](\A i \in ScoutIds : scouts[i].agent_calls <= ToolIterationCap + 1)
    /\ <>(\A i \in ScoutIds : ScoutDone(scouts[i]))

\* a loop that was asked for a tool call on every step, used its whole budget
\* and ended
C1_Witness ==
    \E i \in ScoutIds :
        /\ ScoutEnded(scouts[i])
        /\ AlwaysCalls(scouts[i])
        /\ scouts[i].agent_calls = ToolIterationCap

\* C2 (as claimed): a scout loop that ends without error has run the FINAL
\* extraction step exactly once, also when its first agent reply requested no
\* tool call.
C2_FinalExactlyOnce ==
    \A i \in ScoutIds : ScoutEnded(scouts[i]) => scouts[i].final_runs = 1

\* C3 (as claimed): with an agent that requests a tool call on every step, one
\* loop makes at most cap + 1 = 4 model invocations in total, final extraction
\* included, and a loop that ended made at least one without tools.
C3_AtMostFourModelCalls ==
    \A i \in ScoutIds :
        AlwaysCalls(scouts[i]) =>
            /\ model_calls(scouts[i]) <= ToolIterationCap + 1
            /\ ScoutEnded(scouts[i]) => scouts[i].toolfree_calls >= 1

\* C3 (amended): with such an agent the loop makes at most cap = 3 agent
\* invocations and at most two tool-free invocations (the structured call and,
\* only when that call raised, the unstructured one): 5 in total, 4 when the
\* structured call succeeds; a loop that ended made at least one tool-free call.
C3_AtMostFiveModelCalls ==
    \A i \in ScoutIds :
        AlwaysCalls(scouts[i]) =>
            /\ scouts[i].agent_calls <= ToolIterationCap
            /\ scouts[i].toolfree_calls <= 2
            /\ model_calls(scouts[i]) <= ToolIterationCap + 2
            /\ scouts[i].toolfree_calls <= 1 =>
                   model_calls(scouts[i]) <= ToolIterationCap + 1
            /\ ScoutEnded(scouts[i]) => scouts[i].toolfree_calls >= 1

\* the structured call raised after three tool rounds: five model calls
C3_Witness ==
    \E i \in ScoutIds :
        /\ ScoutEnded(scouts[i])
        /\ AlwaysCalls(scouts[i])
        /\ scouts[i].agent_calls = ToolIterationCap
        /\ scouts[i].toolfree_calls = 2

\* C10 (as claimed): every story a scout contributes carries the topic of the
\* task assigned to that scout.
C10_StoryTopicIsTaskTopic ==
    \A i \in ScoutIds :
        ScoutEnded(scouts[i]) =>
            \A k \in 1..Len(scouts[i].NewsStories) :
                scouts[i].NewsStories[k].topic = scouts[i].AssignedTask.topic


(***************************************************************************)
(* Properties of the evaluator stage.                                      *)
(***************************************************************************)
followup_cycles == Get(evaluator.followup_cycles, 0)

EvaluatorEnded == evaluator.node = "end"

\* C4: followup_cycles (0 while unset) is 0 or 1 in every reachable state and
\* no step decreases it.
C4_FollowupCyclesBounded ==
    /\ [](followup_cycles \in {0, 1})
    /\ [][followup_cycles' >= followup_cycles]_vars

\* clear_tasks_node has run: the counter stands at the cap
C4_Witness == evaluator.node = "llm" /\ followup_cycles = FollowupCap

\* C5: one run of the evaluator stage makes at most 2 evaluation passes
\* (llm_node executions) and at most 1 round of follow-up scouting.
C5_AtMostTwoPasses ==
    /\ trace.llm_passes <= 2
    /\ trace.followup_rounds <= 1

\* the second pass has run after one follow-up round
C5_Witness ==
    /\ EvaluatorEnded
    /\ trace.llm_passes = 2
    /\ trace.followup_rounds = 1

\* C6: from followup_cycles unset and with a model that proposes exactly one
\* investigator task on every pass, the stage makes exactly one follow-up round
\* (one scout, clear_tasks once, a second pass) and ends with
\* followup_cycles = 1; and a started stage always comes to its end or fails.
C6_OneTaskModelOneRound ==
    /\ [](EvaluatorEnded /\ trace.one_task_model =>
            /\ evaluator.followup_cycles = <<1>>
            /\ trace.followup_rounds = 1
            /\ trace.clear_runs = 1
            /\ trace.llm_passes = 2)
    /\ (stage = "evaluator" /\ trace.one_task_model)
           ~> (EvaluatorEnded \/ stage = "failed" \/ ~trace.one_task_model)

\* the stage ended after a model that proposed one task on both passes
C6_Witness ==
    /\ EvaluatorEnded
    /\ trace.one_task_model
    /\ trace.llm_passes = 2
    /\ Len(evaluator.InvestigatorTasks) = 1

\* C7: after an evaluation pass the stage is dispatching follow-up scouts
\* exactly when the task list is non-empty and followup_cycles < 1, with one
\* scout per task, each on its task; otherwise the stage has ended.
C7_RouterDecision ==
    LET tasks == evaluator.InvestigatorTasks
    IN  /\ evaluator.node = "scout" =>
              /\ tasks # << >>
              /\ followup_cycles < FollowupCap
              /\ Len(scouts) = Len(tasks)
              /\ \A k \in 1..Len(tasks) :
                    /\ scouts[k].AssignedTask.topic = tasks[k].topic
                    /\ scouts[k].AssignedTask.additional_info = tasks[k].additional_info
        /\ EvaluatorEnded =>
              /\ tasks = << >> \/ followup_cycles >= FollowupCap
              /\ scouts = << >>

\* both decisions happen: a dispatch of two scouts, and an end at the cap with
\* tasks still proposed
C7_Witness ==
    /\ EvaluatorEnded
    /\ evaluator.InvestigatorTasks # << >>
    /\ followup_cycles = FollowupCap
    /\ trace.followup_rounds = 1

\* C8 (as claimed): the investigator-task list never holds more than one task,
\* and at most one follow-up scout is dispatched in a pass.
C8_AtMostOneInvestigatorTask ==
    /\ Len(evaluator.InvestigatorTasks) <= 1
    /\ trace.dispatched <= 1
    /\ evaluator.node = "scout" => Len(scouts) <= 1

\* C9 (as claimed): the planner stores, and the fan-out dispatches, at most
\* config.max_tasks tasks.
C9_PlanWithinMaxTasks ==
    /\ Len(pipeline.ScoutTasks) <= config.max_tasks
    /\ trace.planned <= config.max_tasks
    /\ stage = "scout" => Len(scouts) <= config.max_tasks

(***************************************************************************)
(* Properties of the fan-in.                                               *)
(***************************************************************************)
\* number of occurrences of story x in a story list
Count(list, x) == Cardinality({k \in 1..Len(list) : list[k] = x})

RECURSIVE Total(_, _)
\* counts[1] + ... + counts[n]
Total(counts, n) == IF n = 0 THEN 0 ELSE counts[n] + Total(counts, n - 1)

\* the story collection the running scouts' results are merged into
Collection ==
    IF stage = "scout" THEN pipeline.NewsStories ELSE evaluator.NewsStories

\* C11: when the scouts of a fan-out have all completed, in whatever order,
\* the collection after the fan-in holds every story of every instance next to
\* what it held before (multiset union): each story occurs as often as in the
\* old collection plus in all the instances' lists together.
C11_FanInKeepsEveryStory ==
    [][(ScoutFanIn \/ FollowupFanIn) =>
          \A x \in Stories :
              Count(Collection', x) =
                  Count(Collection, x)
                  + Total([i \in ScoutIds |-> Count(scouts[i].NewsStories, x)],
                          Len(scouts))]_vars

\* two first-round scouts, the second completing first, each returned a
\* story, and both stories are in the collection the evaluator starts on
C11_Witness ==
    /\ stage = "evaluator"
    /\ evaluator.node = "llm"
    /\ trace.llm_passes = 0
    /\ trace.planned = 2
    /\ trace.completion = <<2, 1>>
    /\ Len(evaluator.NewsStories) = 2

\* the orders in which n instances can complete
CompletionOrders(n) ==
    {order \in [1..n -> 1..n] : \A a, b \in 1..n : order[a] = order[b] => a = b}

\* the writes of the instances of one superstep to one channel as they
\* arrive, in the order in which the instances completed, each with the
\* index of its Send
SuperstepWrites(order, values) ==
    [k \in 1..Len(order) |-> [task |-> order[k], value |-> values[order[k]]]]

\* the writes of a superstep are applied to a channel with an appending
\* reducer (operator.add, add_messages on messages with fresh ids) when the
\* superstep ends, ordered by task (Send index)
apply_writes(channel, writes) ==
    channel \o Concat([i \in 1..Len(writes) |->
                          writes[CHOOSE k \in 1..Len(writes) : writes[k].task = i].value])

\* the message history the running scouts' transcripts are merged into
History ==
    IF stage = "scout" THEN pipeline.messages ELSE evaluator.messages

C13_RunEndsWithReport ==
    /\ [](trace.writer_runs <= 1)
    /\ [](trace.writer_runs = 1 => EvaluatorEnded)
    /\ <>(\/ trace.call_failed
          \/ /\ stage = "end"
             /\ trace.writer_runs = 1
             /\ pipeline.Report = "report")

\* C14 (as claimed): the story list the writer consumes is exactly the list
\* returned by the last evaluation pass: no story that the evaluator left out
\* of its reply is in the writer's input.
C14_WriterConsumesCuratedSet ==
    trace.writer_runs = 1 => trace.writer_input = trace.curated

(***************************************************************************)
(* Error handling.                                                         *)
(***************************************************************************)
\* the error ToolMessages in a scout's transcript
ToolErrors(s) ==
    {k \in 1..Len(s.messages) :
        s.messages[k].type = "tool" /\ s.messages[k].status = "error"}

\* a model call of the loop raised
ModelCallRaised(s) == s.error = "ModelError" \/ s.toolfree_calls > s.final_runs

\* C15 (as claimed): a loop in which a tool call raised (and no model call
\* did) has the failure in its transcript as a tool result, is not ended by
\* that error, and when it ends it has run the FINAL step and returned its
\* story list.
C15_ToolErrorStillReachesFinal ==
    \A i \in ScoutIds :
        scouts[i].tool_runs > 0 /\ ~ModelCallRaised(scouts[i]) =>
            /\ Cardinality(ToolErrors(scouts[i])) + fault_budget = MaxToolFaults
            /\ ~ScoutFailed(scouts[i])
            /\ ToolErrors(scouts[i]) # {} /\ ScoutEnded(scouts[i]) =>
                   scouts[i].final_runs = 1

\* the ValueErrors final_step raises when the fallback cannot parse the reply
ParseErrors == {"ValueError: not valid JSON", "ValueError: failed validation"}

ParseFailed == \E i \in ScoutIds : scouts[i].error \in ParseErrors

\* C16: a scout whose FINAL step failed both the structured call and the
\* fallback parse (JSON parse or schema validation) has ended in that error
\* with no stories; from then on no story collection changes (no fan-in takes
\* its result, empty or partial), no other stage starts, and the error reaches
\* the caller: the run fails.
C16_ParseFailurePropagates ==
    /\ [](\A i \in ScoutIds :
             scouts[i].error \in ParseErrors =>
                 /\ ScoutFailed(scouts[i])
                 /\ scouts[i].NewsStories = << >>
                 /\ scouts[i].final_runs = 1
                 /\ scouts[i].toolfree_calls = 2)
    /\ [][ParseFailed =>
             /\ pipeline' = pipeline
             /\ evaluator' = evaluator
             /\ stage' \in {stage, "failed"}]_vars
    /\ ParseFailed ~> stage = "failed"

\* the run failed on a follow-up scout whose reply was valid JSON that failed
\* validation, while the other follow-up scout had returned a story that is
\* not in the collection
C16_Witness ==
    /\ stage = "failed"
    /\ Len(scouts) = 2
    /\ scouts[1].error = "ValueError: failed validation"
    /\ ScoutEnded(scouts[2])
    /\ scouts[2].NewsStories # << >>
    /\ evaluator.NewsStories = << >>

\* a stage has raised
StageFailed == stage = "failed" \/ SomeFailed

\* C17: once a stage (the planner, a scout, the evaluator or the writer) has
\* failed, the run is aborted: the run reaches its failed end and takes no step
\* from there, no other stage starts, the collections and the report are left
\* as they are, and no report file exists, then or later.
C17_FailureAbortsRun ==
    /\ [](StageFailed => report_file = << >>)
    /\ [][~StageFailed' => ~StageFailed]_vars
    /\ [][stage # "failed"]_vars
    /\ [][SomeFailed =>
             /\ pipeline' = pipeline
             /\ evaluator' = evaluator
             /\ stage' \in {stage, "failed"}]_vars
    /\ StageFailed ~> stage = "failed"

\* the writer failed after the evaluator had ended on a non-empty collection:
\* no report and no file
C17_Witness ==
    /\ stage = "failed"
    /\ EvaluatorEnded
    /\ pipeline.NewsStories # << >>
    /\ trace.writer_runs = 0
    /\ pipeline.Report = ""
    /\ report_file = << >>

(***************************************************************************)
(* Properties of final_step's recovery path.                               *)
(***************************************************************************)
\* the texts of a schema-conformant JSON object carrying the stories
ConformantObjects(stories) == {Object(stories), ObjectQuoting(stories)}

\* replies that are one fenced code block holding such an object, with or
\* without the json tag, alone or between prose
FencedReplies(stories) ==
    UNION {{ Fenced(object),
             Fenced(<<Tok("json")>> \o object),
             <<Tok("prose")>> \o Fenced(object) \o <<Tok("prose")>> } :
           object \in ConformantObjects(stories)}

\* C18 (as claimed): final_step makes the unstructured call exactly when the
\* structured call raised, and when the unstructured reply is a fenced code
\* block holding a valid schema-conformant JSON object (prose around it or
\* not), stripping the fence and taking the first '{' to the last '}' yields
\* that object and the step returns its stories.
C18_FencedJsonRecovered ==
    probe # NoProbe /\ probe.result # << >> =>
        LET r == probe.result[1]
            content == probe.unstructured.content
        IN  /\ r.calls = 2 <=> probe.structured.raised
            /\ \A stories \in StoryLists :
                  /\ probe.structured.raised
                  /\ ~probe.unstructured.raised
                  /\ content \in FencedReplies(stories)
                  => /\ Candidate(StripFence(content)) \in ConformantObjects(stories)
                     /\ r.ok
                     /\ r.NewsStories = stories

(***************************************************************************)
(* Properties of the data.                                                 *)
(***************************************************************************)
\* C19 (as claimed): every story in the story collection (of the pipeline and
\* of the evaluator stage) has a score in 1..10 in every reachable state.
C19_ScoreInRange ==
    /\ \A k \in 1..Len(pipeline.NewsStories) :
          pipeline.NewsStories[k].score \in 1..10
    /\ \A k \in 1..Len(evaluator.NewsStories) :
          evaluator.NewsStories[k].score \in 1..10

(***************************************************************************)
(* Properties of the configuration.                                        *)
(***************************************************************************)
\* the form under which two interests are the same: trimmed, case ignored
InterestKey(s) == lower(strip(s))

\* C20 (as claimed): for every interests list that loads, the loaded list has
\* no two entries equal case-insensitively after trimming, every entry is
\* trimmed, every input interest is represented, and the entries stand in the
\* order in which they were first seen in the input.
C20_InterestsDeduplicated ==
    probe # NoProbe /\ probe.result # << >> /\ probe.result[1].ok =>
        LET v   == probe.interests
            out == probe.result[1].interests
            FirstSeen(s) == Minimum({k \in 1..Len(v) : InterestKey(v[k]) = InterestKey(s)})
        IN  /\ \A i, j \in 1..Len(out) :
                  i # j => InterestKey(out[i]) # InterestKey(out[j])
            /\ \A i \in 1..Len(out) : out[i] = strip(out[i])
            /\ {InterestKey(out[i]) : i \in 1..Len(out)}
                  = {InterestKey(v[k]) : k \in 1..Len(v)}
            /\ \A i, j \in 1..Len(out) :
                  i < j => FirstSeen(out[i]) < FirstSeen(out[j])

(***************************************************************************)
(* Configuration schema (config/config_parser.py).  A document is the     *)
(* mapping yaml.safe_load returns; each section records whether it holds  *)
(* a key the schema does not declare.  A validator returns the errors it  *)
(* reports and the model instance it builds when there are none.          *)
(***************************************************************************)
\* the sections of a document that may hold an undeclared key
Sections ==
    {"top", "newsletter", "content", "content.reddit", "content.youtube",
     "output", "models"}

\* a document with the given values and an undeclared key in section unknown
Document(interests, max_stories, toggles, reddit, youtube, max_tasks, unknown) ==
    [ interests  |-> interests,
      newsletter |-> [max_stories |-> max_stories,
                      unknown |-> unknown = "newsletter"],
      content    |-> [include_academic |-> toggles[1],
                      include_reddit   |-> toggles[2],
                      include_youtube  |-> toggles[3],
                      include_news     |-> toggles[4],
                      reddit  |-> [min_upvotes   |-> reddit[1],
                                   max_age_hours |-> reddit[2],
                                   unknown |-> unknown = "content.reddit"],
                      youtube |-> [min_views            |-> youtube[1],
                                   max_duration_minutes |-> youtube[2],
                                   unknown |-> unknown = "content.youtube"],
                      unknown |-> unknown = "content"],
      output     |-> [format |-> "markdown", unknown |-> unknown = "output"],
      models     |-> [planner |-> "gpt-5-mini", unknown |-> unknown = "models"],
      max_tasks  |-> max_tasks,
      unknown    |-> unknown = "top" ]

\* one pydantic error, named by the location or message it reports
ErrorIf(violated, error) == IF violated THEN {error} ELSE {}

\* RedditSettings: min_upvotes ge=0, max_age_hours gt=0; other keys ignored
RedditSettings(raw) ==
    [ errors |-> ErrorIf(~(raw.min_upvotes >= 0), "content.reddit.min_upvotes")
                 \cup ErrorIf(~(raw.max_age_hours > 0), "content.reddit.max_age_hours"),
      value  |-> [min_upvotes |-> raw.min_upvotes,
                  max_age_hours |-> raw.max_age_hours] ]

\* YouTubeSettings: min_views ge=0, max_duration_minutes gt=0
YouTubeSettings(raw) ==
    [ errors |-> ErrorIf(~(raw.min_views >= 0), "content.youtube.min_views")
                 \cup ErrorIf(~(raw.max_duration_minutes > 0),
                              "content.youtube.max_duration_minutes"),
      value  |-> [min_views |-> raw.min_views,
                  max_duration_minutes |-> raw.max_duration_minutes] ]

\* a ContentSettings without its model validator
validate_at_least_one_source_absent(self) == {}

\* ContentSettings.validate_at_least_one_source on a built instance
validate_at_least_one_source(self) ==
    ErrorIf(~(\/ self.include_academic \/ self.include_reddit
              \/ self.include_youtube \/ self.include_news),
            "At least one content source must be enabled")

\* ContentSettings: the fields are validated first; the mode='after'
\* validator runs on the instance only when every field was valid
ContentSettings(raw) ==
    LET reddit  == RedditSettings(raw.reddit)
        youtube == YouTubeSettings(raw.youtube)
        self    == [include_academic |-> raw.include_academic,
                    include_reddit   |-> raw.include_reddit,
                    include_youtube  |-> raw.include_youtube,
                    include_news     |-> raw.include_news,
                    reddit  |-> reddit.value,
                    youtube |-> youtube.value]
        fields  == reddit.errors \cup youtube.errors
    IN  [ errors |-> IF fields # {} THEN fields
                     ELSE validate_at_least_one_source(self),
          value  |-> self ]

\* a NewsletterSettings whose max_stories has no upper limit
NewsletterSettings_unbounded(raw) ==
    [ errors |-> ErrorIf(~(raw.max_stories > 0), "newsletter.max_stories"),
      value  |-> [max_stories |-> raw.max_stories] ]

\* NewsletterSettings: max_stories gt=0, le=50
NewsletterSettings(raw) ==
    [ errors |-> ErrorIf(~(raw.max_stories > 0 /\ raw.max_stories <= 50),
                         "newsletter.max_stories"),
      value  |-> [max_stories |-> raw.max_stories] ]

\* OutputSettings: format is one of the three literals
OutputSettings(raw) ==
    [ errors |-> ErrorIf(raw.format \notin {"markdown", "pdf", "html"}, "output.format"),
      value  |-> [format |-> raw.format] ]

\* ModelSettings: no constraint beyond the declared fields
ModelSettings(raw) == [errors |-> {}, value |-> [planner |-> raw.planner]]

\* ThinkleConfig(**raw): every field is validated and all errors are
\* collected; extra="forbid" is set in this class's model_config only
ThinkleConfig(raw) ==
    LET interests  == validate_interests(raw.interests)
        newsletter == NewsletterSettings(raw.newsletter)
        content    == ContentSettings(raw.content)
        output     == OutputSettings(raw.output)
        models     == ModelSettings(raw.models)
    IN  [ errors |-> ErrorIf(~interests.ok, "interests")
                     \cup newsletter.errors \cup content.errors
                     \cup output.errors \cup models.errors
                     \cup ErrorIf(~(raw.max_tasks > 0 /\ raw.max_tasks <= 10), "max_tasks")
                     \cup ErrorIf(raw.unknown, "Extra inputs are not permitted"),
          value  |-> [interests  |-> interests.interests,
                      newsletter |-> newsletter.value,
                      content    |-> content.value,
                      output     |-> output.value,
                      models     |-> models.value,
                      max_tasks  |-> raw.max_tasks] ]

\* self.model_dump(): the mapping of the instance's declared fields
model_dump(self) ==
    [ interests  |-> self.interests,
      newsletter |-> [max_stories |-> self.newsletter.max_stories,
                      unknown |-> FALSE],
      content    |-> [include_academic |-> self.content.include_academic,
                      include_reddit   |-> self.content.include_reddit,
                      include_youtube  |-> self.content.include_youtube,
                      include_news     |-> self.content.include_news,
                      reddit  |-> [min_upvotes   |-> self.content.reddit.min_upvotes,
                                   max_age_hours |-> self.content.reddit.max_age_hours,
                                   unknown |-> FALSE],
                      youtube |-> [min_views |-> self.content.youtube.min_views,
                                   max_duration_minutes |->
                                       self.content.youtube.max_duration_minutes,
                                   unknown |-> FALSE],
                      unknown |-> FALSE],
      output     |-> [format |-> self.output.format, unknown |-> FALSE],
      models     |-> [planner |-> self.models.planner, unknown |-> FALSE],
      max_tasks  |-> self.max_tasks,
      unknown    |-> FALSE ]

(***************************************************************************)
(* ConfigParser (config/config_parser.py).  A file either does not exist  *)
(* or holds text that is malformed YAML, an empty document or a mapping.  *)
(***************************************************************************)
None == << >>

MissingFile == [exists |-> FALSE, yaml |-> "empty", raw |-> None]

MalformedFile == [exists |-> TRUE, yaml |-> "malformed", raw |-> None]

EmptyFile == [exists |-> TRUE, yaml |-> "empty", raw |-> None]

\* yaml.dump(raw, file): a file holding the mapping
yaml_dump(raw) == [exists |-> TRUE, yaml |-> "mapping", raw |-> <<raw>>]

\* yaml.safe_load(file): raises on malformed text, None for an empty document
safe_load(file) ==
    [ raised |-> file.yaml = "malformed",
      value  |-> IF file.yaml = "mapping" THEN file.raw ELSE None ]

\* a raise that also forgets the stored configuration
Raise_forgetting(self, exc, message, opened) ==
    [ raised |-> exc, message |-> message, value |-> None, opened |-> opened,
      _config |-> None ]

\* a call that raised the exception exc with the given message parts
Raise(self, exc, message, opened) ==
    [ raised |-> exc, message |-> message, value |-> None, opened |-> opened,
      _config |-> self._config ]

\* ConfigParser.load_config: what the call raises or returns, whether the
\* file was opened, and self._config after the call
load_config(self) ==
    IF ~self.file.exists
    THEN Raise(self, "FileNotFoundError", {"Configuration file not found"}, FALSE)
    ELSE LET raw_config == safe_load(self.file)
         IN  IF raw_config.raised
             THEN Raise(self, "YAMLError", {"Failed to parse YAML configuration"}, TRUE)
             ELSE IF raw_config.value = None
             THEN Raise(self, "ValueError", {"Configuration file is empty"}, TRUE)
             ELSE LET built == ThinkleConfig(raw_config.value[1])
                  IN  IF built.errors # {}
                      THEN Raise(self, "ValueError",
                                 {"Configuration validation failed"} \cup built.errors,
                                 TRUE)
                      ELSE [ raised |-> "none", message |-> {},
                             value |-> <<built.value>>, opened |-> TRUE,
                             _config |-> <<built.value>> ]

\* ConfigParser.get_config
get_config(self) ==
    IF self._config = None
    THEN Raise(self, "RuntimeError",
               {"Configuration not loaded. Call load_config() first."}, FALSE)
    ELSE [ raised |-> "none", message |-> {}, value |-> self._config,
           opened |-> FALSE, _config |-> self._config ]

\* ConfigParser.reload_config
reload_config(self) == load_config(self)

\* ConfigParser.save_config(config, output_path): the file written
save_config(cfg) == yaml_dump(model_dump(cfg))

\* ConfigParser(config_path) after construction, with the file at its path
NewParser(file) ==
    [ file |-> file, _config |-> None, call |-> "none", result |-> None,
      loaded |-> None ]

\* the parser after a call returned or raised; loaded remembers the value of
\* the most recent load that succeeded
Called(self, call, result) ==
    [ self EXCEPT !._config = result._config,
                  !.call = call,
                  !.result = <<result>>,
                  !.loaded = IF call # "get_config" /\ result.raised = "none"
                             THEN result.value ELSE @ ]

LoadConfig ==
    /\ stage = "config_parser"
    /\ probe' = Called(probe, "load_config", load_config(probe))
    /\ UNCHANGED <<stage, config, pipeline, scouts, evaluator, fault_budget, parallel_budget,
                   report_file, trace>>

ReloadConfig ==
    /\ stage = "config_parser"
    /\ probe' = Called(probe, "reload_config", reload_config(probe))
    /\ UNCHANGED <<stage, config, pipeline, scouts, evaluator, fault_budget, parallel_budget,
                   report_file, trace>>

GetConfig ==
    /\ stage = "config_parser"
    /\ probe' = Called(probe, "get_config", get_config(probe))
    /\ UNCHANGED <<stage, config, pipeline, scouts, evaluator, fault_budget, parallel_budget,
                   report_file, trace>>

\* load_config applied by a new parser to each document: every combination of
\* the numeric fields at and around their limits, of the four source toggles
\* and of the place of an undeclared key, and every interests list with the
\* other fields valid
ValidationInit ==
    /\ stage = "config_parser"
    /\ config = [max_tasks |-> DefaultMaxTasks]
    /\ pipeline = InitialPipeline
    /\ scouts = << >>
    /\ evaluator = InitialEvaluator
    /\ fault_budget = 0
    /\ parallel_budget = 0
    /\ report_file = << >>
    /\ \/ \E max_stories \in {0, 1, 50, 51}, toggles \in [1..4 -> BOOLEAN],
                min_upvotes \in {-1, 0}, max_age_hours \in {0, 1},
                min_views \in {-1, 0}, max_duration_minutes \in {0, 1},
                max_tasks \in {0, 1, 10, 11}, unknown \in Sections \cup {"none"} :
             probe = NewParser(yaml_dump(
                        Document(<< <<"A">> >>, max_stories, toggles,
                                 <<min_upvotes, max_age_hours>>,
                                 <<min_views, max_duration_minutes>>,
                                 max_tasks, unknown)))
       \/ \E interests \in InterestLists :
             probe = NewParser(yaml_dump(
                        Document(interests, 1, [k \in 1..4 |-> TRUE],
                                 <<0, 1>>, <<0, 1>>, 1, "none")))
       \/ \E format \in {"markdown", "pdf", "html", "docx", "invalid_format"},
                max_stories \in {0, 1} :
             probe = NewParser(yaml_dump(
                        [Document(<< <<"A">> >>, max_stories, [k \in 1..4 |-> TRUE],
                                  <<0, 1>>, <<0, 1>>, 1, "none")
                            EXCEPT !.output.format = format]))
    /\ trace = InitialTrace

ValidationNext == LoadConfig

ValidationSpec == ValidationInit /\ [][ValidationNext]_vars

\* the parser's last call was a load that succeeded
LoadSucceeded ==
    /\ stage = "config_parser"
    /\ probe.call \in {"load_config", "reload_config"}
    /\ probe.result[1].raised = "none"

\* the parser's last call was a load that raised
LoadRejected ==
    /\ stage = "config_parser"
    /\ probe.call \in {"load_config", "reload_config"}
    /\ probe.result[1].raised # "none"

\* C21 (as claimed): every configuration obtained from a successful load,
\* saved with save_config and loaded again by a new parser, loads and is
\* equal to it field for field.
C21_SaveLoadRoundTrip ==
    LoadSucceeded =>
        LET again == load_config(NewParser(save_config(probe._config[1])))
        IN  /\ again.raised = "none"
            /\ again.value = probe._config

\* the document a load read has all four content-source toggles false
AllSourcesDisabled ==
    /\ probe.file.yaml = "mapping"
    /\ LET content == probe.file.raw[1].content
       IN  ~(\/ content.include_academic \/ content.include_reddit
             \/ content.include_youtube \/ content.include_news)

\* the reddit and youtube settings of the document a load read are valid
SourceSettingsValid ==
    /\ RedditSettings(probe.file.raw[1].content.reddit).errors = {}
    /\ YouTubeSettings(probe.file.raw[1].content.youtube).errors = {}

\* C22 (as claimed): a loaded configuration has a content source enabled, and
\* every document with all four toggles false is rejected with an error that
\* mentions "at least one content source".
C22_AllDisabledAlwaysNamed ==
    /\ LoadSucceeded =>
          LET content == probe._config[1].content
          IN  \/ content.include_academic \/ content.include_reddit
              \/ content.include_youtube \/ content.include_news
    /\ stage = "config_parser" /\ probe.call = "load_config" /\ AllSourcesDisabled =>
          /\ probe.result[1].raised = "ValueError"
          /\ "At least one content source must be enabled" \in probe.result[1].message

\* C22: a loaded configuration has at least one of the four content sources
\* enabled; a document with all four false is always rejected with the
\* validation ValueError, and the error mentions "At least one content source
\* must be enabled" whenever the document's reddit and youtube settings are
\* themselves valid (the check runs only on a content section whose fields
\* validated).
C22_AtLeastOneSource ==
    /\ LoadSucceeded =>
          LET content == probe._config[1].content
          IN  \/ content.include_academic \/ content.include_reddit
              \/ content.include_youtube \/ content.include_news
    /\ stage = "config_parser" /\ probe.call = "load_config" /\ AllSourcesDisabled =>
          /\ probe.result[1].raised = "ValueError"
          /\ "Configuration validation failed" \in probe.result[1].message
          /\ probe._config = None
          /\ SourceSettingsValid <=>
                "At least one content source must be enabled" \in probe.result[1].message

\* a document whose only defect is that all four sources are disabled was
\* rejected, and the error names that defect alone
C22_Witness ==
    /\ stage = "config_parser" /\ probe.call = "load_config" /\ AllSourcesDisabled
    /\ probe.result[1].message
          = {"Configuration validation failed",
             "At least one content source must be enabled"}

\* the numeric fields of a document that lie outside their limits, by location
OutOfRange(raw) ==
    ErrorIf(raw.newsletter.max_stories < 1 \/ raw.newsletter.max_stories > 50,
            "newsletter.max_stories")
    \cup ErrorIf(raw.content.reddit.max_age_hours <= 0, "content.reddit.max_age_hours")
    \cup ErrorIf(raw.content.youtube.max_duration_minutes <= 0,
                 "content.youtube.max_duration_minutes")
    \cup ErrorIf(raw.content.reddit.min_upvotes < 0, "content.reddit.min_upvotes")
    \cup ErrorIf(raw.content.youtube.min_views < 0, "content.youtube.min_views")
    \cup ErrorIf(raw.max_tasks < 1 \/ raw.max_tasks > 10, "max_tasks")

NumericLocations ==
    {"newsletter.max_stories", "content.reddit.max_age_hours",
     "content.youtube.max_duration_minutes", "content.reddit.min_upvotes",
     "content.youtube.min_views", "max_tasks"}

\* C23: each numeric limit is checked on its own.  A document is rejected
\* whenever max_stories is outside [1,50], max_age_hours <= 0,
\* max_duration_minutes <= 0, min_upvotes < 0, min_views < 0 or max_tasks is
\* outside [1,10], whatever the other fields hold; the error names exactly the
\* fields that are out of range; and a document whose numeric fields all lie
\* within their limits, the limits 50, 10, 1 and 0 included, is not rejected
\* for any of them and loads when its other fields are valid.
C23_NumericBoundsIndependent ==
    stage = "config_parser" /\ probe.call = "load_config"
        /\ probe.file.yaml = "mapping" =>
        LET raw    == probe.file.raw[1]
            result == probe.result[1]
        IN  /\ result.message \cap NumericLocations = OutOfRange(raw)
            /\ OutOfRange(raw) # {} =>
                  /\ result.raised = "ValueError"
                  /\ "Configuration validation failed" \in result.message
                  /\ probe._config = None
            /\ (/\ OutOfRange(raw) = {}
                /\ validate_interests(raw.interests).ok
                /\ ~AllSourcesDisabled
                /\ OutputSettings(raw.output).errors = {}
                /\ ~raw.unknown) =>
                  /\ result.raised = "none"
                  /\ probe._config[1].newsletter.max_stories = raw.newsletter.max_stories
                  /\ probe._config[1].max_tasks = raw.max_tasks
                  /\ probe._config[1].content.reddit = 
                        [min_upvotes |-> raw.content.reddit.min_upvotes,
                         max_age_hours |-> raw.content.reddit.max_age_hours]

\* a document with max_stories = 51 and every other field valid and at its
\* limit (max_tasks 10, max_age_hours 1, min_upvotes 0) was rejected for
\* max_stories alone
C23_Witness ==
    /\ stage = "config_parser" /\ probe.call = "load_config"
    /\ probe.file.yaml = "mapping"
    /\ probe.file.raw[1].newsletter.max_stories = 51
    /\ probe.file.raw[1].max_tasks = 10
    /\ probe.file.raw[1].content.reddit = [min_upvotes |-> 0, max_age_hours |-> 1,
                                           unknown |-> FALSE]
    /\ probe.result[1].raised = "ValueError"
    /\ probe.result[1].message
          = {"Configuration validation failed", "newsletter.max_stories"}

\* the sections of a document that hold an undeclared key
UnknownKeys(raw) ==
    ErrorIf(raw.unknown, "top")
    \cup ErrorIf(raw.newsletter.unknown, "newsletter")
    \cup ErrorIf(raw.content.unknown, "content")
    \cup ErrorIf(raw.content.reddit.unknown, "content.reddit")
    \cup ErrorIf(raw.content.youtube.unknown, "content.youtube")
    \cup ErrorIf(raw.output.unknown, "output")
    \cup ErrorIf(raw.models.unknown, "models")

\* C24 (as claimed): a document with an undeclared key is rejected, whether
\* the key stands at the top level or inside the newsletter, content,
\* content.reddit, content.youtube, output or models section.
C24_UnknownKeyRejected ==
    stage = "config_parser" /\ probe.call = "load_config"
        /\ probe.file.yaml = "mapping" /\ UnknownKeys(probe.file.raw[1]) # {} =>
        /\ probe.result[1].raised = "ValueError"
        /\ probe._config = None

(***************************************************************************)
(* One ConfigParser called repeatedly while the file at its path changes.  *)
(***************************************************************************)
\* the states of the file at config_path: absent, malformed, empty, or a
\* document that is valid (max_tasks 1 or 10) or invalid (max_tasks 0)
ParserFiles ==
    {MissingFile, MalformedFile, EmptyFile}
    \cup { yaml_dump(Document(<< <<"A">> >>, 1, [k \in 1..4 |-> TRUE],
                              <<0, 1>>, <<0, 1>>, max_tasks, "none")) :
             max_tasks \in {0, 1, 10} }

ParserInit ==
    /\ stage = "config_parser"
    /\ config = [max_tasks |-> DefaultMaxTasks]
    /\ pipeline = InitialPipeline
    /\ scouts = << >>
    /\ evaluator = InitialEvaluator
    /\ fault_budget = 0
    /\ parallel_budget = 0
    /\ report_file = << >>
    /\ \E file \in ParserFiles : probe = NewParser(file)
    /\ trace = InitialTrace

\* the file at config_path is written, replaced or removed between calls
EditFile ==
    /\ stage = "config_parser"
    /\ \E file \in ParserFiles \ {probe.file} :
          probe' = [probe EXCEPT !.file = file]
    /\ UNCHANGED <<stage, config, pipeline, scouts, evaluator, fault_budget, parallel_budget,
                   report_file, trace>>

ParserNext ==
    \/ EditFile
    \/ LoadConfig
    \/ ReloadConfig
    \/ GetConfig

ParserSpec == ParserInit /\ [][ParserNext]_vars

\* C25: after any sequence of load_config, reload_config and get_config calls
\* on one parser, the stored configuration is the value of the most recent
\* load that succeeded (None while none has); get_config raises RuntimeError
\* exactly as long as no load has succeeded and returns the stored
\* configuration afterwards; and a load that fails, on a missing, malformed,
\* empty or invalid file, leaves the stored configuration as it was, with
\* every call still available.
C25_StoredIsLastSuccessfulLoad ==
    /\ stage = "config_parser" =>
          /\ probe._config = probe.loaded
          /\ probe.call = "get_config" =>
                /\ probe.loaded = None <=> probe.result[1].raised = "RuntimeError"
                /\ probe.loaded # None =>
                      /\ probe.result[1].raised = "none"
                      /\ probe.result[1].value = probe.loaded
          /\ LoadRejected => probe.result[1].value = None
          /\ LoadSucceeded =>
                /\ probe.result[1].value = probe._config
                /\ probe._config # None
    /\ ENABLED LoadConfig /\ ENABLED ReloadConfig /\ ENABLED GetConfig

\* a reload has failed on a file that no longer exists while the parser keeps
\* the configuration of an earlier load
C25_Witness ==
    /\ stage = "config_parser"
    /\ probe.call = "reload_config"
    /\ probe.file = MissingFile
    /\ probe.result[1].raised = "FileNotFoundError"
    /\ probe._config # None
    /\ probe._config[1].max_tasks = 10

(***************************************************************************)
(* main (generate_newsletter.py): the configuration is loaded first; the   *)
(* graph is built and invoked only with a loaded configuration.            *)
(***************************************************************************)
\* a main that goes on to the graph whatever load_config did
StartupStage_continue(result) == "planner"

\* where main goes after load_config: on to the graph when it returned; out
\* of the process when it raised (FileNotFoundError and ValueError are caught
\* and exit with status 1, any other exception leaves main uncaught)
StartupStage(result) == IF result.raised = "none" THEN "planner" ELSE "exit"

MainInit ==
    /\ stage = "startup"
    /\ config = None
    /\ pipeline = InitialPipeline
    /\ scouts = << >>
    /\ evaluator = InitialEvaluator
    /\ fault_budget = MaxToolFaults
    /\ parallel_budget = 0
    /\ report_file = << >>
    /\ \E file \in ParserFiles : probe = NewParser(file)
    /\ trace = InitialTrace

\* main: ConfigParser(args.config).load_config()
MainLoadConfig ==
    /\ stage = "startup"
    /\ LET result == load_config(probe)
       IN  /\ probe' = Called(probe, "load_config", result)
           /\ stage' = StartupStage(result)
           /\ config' = IF result.raised = "none"
                        THEN [max_tasks |-> result.value[1].max_tasks]
                        ELSE config
    /\ UNCHANGED <<pipeline, scouts, evaluator, fault_budget, parallel_budget, report_file, trace>>

MainNext ==
    \/ MainLoadConfig
    \/ Next

MainSpec == MainInit /\ [][MainNext]_vars

\* C26: load_config classifies a failure in a fixed order: a file that does
\* not exist raises FileNotFoundError before it is opened; otherwise malformed
\* YAML raises YAMLError; otherwise an empty document raises ValueError with
\* "Configuration file is empty"; otherwise a document the schema rejects
\* raises ValueError with "Configuration validation failed"; and whenever
\* load_config raised, main has left without running any stage: no task was
\* planned, no scout ran, the state is the initial one and no report is
\* written.
C26_LoadFailuresClassifiedAndFatal ==
    stage # "startup" /\ probe # NoProbe =>
        LET file   == probe.file
            result == probe.result[1]
        IN  /\ ~file.exists =>
                  result.raised = "FileNotFoundError" /\ ~result.opened
            /\ file.exists /\ file.yaml = "malformed" =>
                  result.raised = "YAMLError"
            /\ file.exists /\ file.yaml = "empty" =>
                  /\ result.raised = "ValueError"
                  /\ result.message = {"Configuration file is empty"}
            /\ file.exists /\ file.yaml = "mapping"
                  /\ ThinkleConfig(file.raw[1]).errors # {} =>
                  /\ result.raised = "ValueError"
                  /\ "Configuration validation failed" \in result.message
            /\ file.exists /\ file.yaml = "mapping"
                  /\ ThinkleConfig(file.raw[1]).errors = {} =>
                  result.raised = "none"
            /\ result.raised # "none" =>
                  /\ stage = "exit"
                  /\ config = None
                  /\ pipeline = InitialPipeline
                  /\ scouts = << >>
                  /\ evaluator = InitialEvaluator
                  /\ report_file = << >>
                  /\ trace = InitialTrace
                  /\ ~ENABLED Next

\* main has stopped on a document that parsed but failed validation
C26_Witness ==
    /\ stage = "exit"
    /\ probe # NoProbe
    /\ probe.file.yaml = "mapping"
    /\ probe.result[1].raised = "ValueError"
    /\ probe.result[1].message = {"Configuration validation failed", "max_tasks"}
    /\ trace.planned = 0

(***************************************************************************)
(* Properties of a follow-up round.                                        *)
(***************************************************************************)
\* C27: a follow-up round runs clear_tasks exactly once, after all of the
\* round's scouts have ended and been merged: that step raises
\* followup_cycles by exactly 1 however many scouts the round had, empties
\* InvestigatorTasks, appends exactly one status message to the messages,
\* leaves the stories alone and hands control back to llm; the number of
\* clear_tasks runs equals the number of rounds whenever llm is next or the
\* stage has ended.
C27_ClearCycleOncePerRound ==
    /\ [](/\ evaluator.node \in {"llm", "end"} =>
                /\ trace.clear_runs = trace.followup_rounds
                /\ followup_cycles = trace.followup_rounds
          /\ evaluator.node \in {"scout", "clear_tasks"} =>
                trace.clear_runs = trace.followup_rounds - 1
          /\ evaluator.node = "clear_tasks" => scouts = << >>)
    /\ [][trace.clear_runs' # trace.clear_runs =>
             /\ evaluator.node = "clear_tasks"
             /\ scouts = << >>
             /\ trace.clear_runs' = trace.clear_runs + 1
             /\ followup_cycles' = followup_cycles + 1
             /\ evaluator.InvestigatorTasks' = << >>
             /\ Len(evaluator.messages') = Len(evaluator.messages) + 1
             /\ SubSeq(evaluator.messages', 1, Len(evaluator.messages))
                   = evaluator.messages
             /\ evaluator.messages'[Len(evaluator.messages')].status
                   = "followup_complete"
             /\ evaluator.NewsStories' = evaluator.NewsStories
             /\ evaluator.node' = "llm"]_vars

\* clear_tasks has run once after a round of two scouts and llm is next
C27_Witness ==
    /\ stage = "evaluator"
    /\ evaluator.node = "llm"
    /\ trace.dispatched = 2
    /\ trace.clear_runs = 1
    /\ followup_cycles = 1
    /\ evaluator.InvestigatorTasks = << >>
    /\ evaluator.messages # << >>
    /\ evaluator.messages[Len(evaluator.messages)].status = "followup_complete"

\* C28 (as claimed): the status message clear_tasks appends reports the new
\* cycle number, a count equal to the number of stories the round's follow-up
\* scouts appended, and a preview of at most 3 stories that is the end of the
\* story collection.
C28_SummaryCountsAppended ==
    [][trace.clear_runs' # trace.clear_runs =>
          LET content == evaluator.messages'[Len(evaluator.messages')].content
              stories == evaluator.NewsStories
          IN  /\ content.followup_cycles = followup_cycles'
              /\ content.appended_count = Len(Concat(trace.batches))
              /\ Len(content.appended_preview) <= 3
              /\ content.appended_preview
                    = SubSeq(stories, Len(stories) - Len(content.appended_preview) + 1,
                             Len(stories))]_vars

\* C29: both joins are barriers.  While a scout of a fan-out has not ended,
\* no step starts an evaluation pass or runs clear_tasks, and none changes
\* the evaluator's state or the pipeline state; llm and clear_tasks never run
\* beside a scout.  The first evaluation pass starts only after every scout
\* the planner dispatched has ended, each exactly once, and on a collection
\* that holds the batch of every one of them; clear_tasks runs only after
\* every follow-up scout of the round has ended, each exactly once, and on a
\* collection that holds the batch of every one of them.
C29_JoinIsBarrier ==
    /\ [](evaluator.node \in {"llm", "clear_tasks"} => scouts = << >>)
    /\ [][(\E i \in ScoutIds : scouts[i].node # "end") =>
             /\ trace.llm_passes' = trace.llm_passes
             /\ trace.clear_runs' = trace.clear_runs
             /\ evaluator' = evaluator
             /\ pipeline' = pipeline
             /\ Len(scouts') = Len(scouts)]_vars
    /\ [][(trace.llm_passes = 0 /\ trace.llm_passes' = 1) =>
             /\ trace.planned >= 1
             /\ trace.completion \in CompletionOrders(trace.planned)
             /\ Len(trace.batches) = trace.planned
             /\ evaluator.NewsStories = trace.base \o Concat(trace.batches)]_vars
    /\ [][trace.clear_runs' # trace.clear_runs =>
             /\ trace.dispatched >= 1
             /\ trace.completion \in CompletionOrders(trace.dispatched)
             /\ Len(trace.batches) = trace.dispatched
             /\ evaluator.NewsStories = trace.base \o Concat(trace.batches)]_vars

\* after a first round of two scouts, the follow-up round's two scouts have
\* been joined, the second having completed before the first
C29_Witness ==
    /\ stage = "evaluator"
    /\ evaluator.node = "clear_tasks"
    /\ trace.planned = 2
    /\ trace.llm_passes = 1
    /\ trace.dispatched = 2
    /\ trace.completion = <<2, 1>>
    /\ Len(trace.batches) = 2

\* C30: the story collection only grows.  Every step of a run leaves the
\* stories held before it in place, in PlannerState and in EvaluatorState
\* alike, with anything new after them; the first fan-in hands the evaluator
\* the old collection followed by the scouts' stories, an evaluation pass
\* puts its returned stories after the collection it read, and after a
\* follow-up round the collection is the one before the round followed by the
\* follow-up scouts' stories.
C30_CollectionAppendOnly ==
    [][LET IsPrefix(a, b) == Len(a) <= Len(b) /\ SubSeq(b, 1, Len(a)) = a
       IN  /\ IsPrefix(pipeline.NewsStories, pipeline.NewsStories')
           /\ IsPrefix(evaluator.NewsStories, evaluator.NewsStories')
           /\ \A x \in Stories : Count(Collection', x) >= Count(Collection, x)
           /\ ScoutFanIn =>
                 /\ pipeline.NewsStories' = pipeline.NewsStories \o Concat(Batches)
                 /\ evaluator.NewsStories' = pipeline.NewsStories'
           /\ LlmStep /\ stage' = "evaluator" =>
                 evaluator.NewsStories' = evaluator.NewsStories \o trace.curated'
           /\ FollowupFanIn =>
                 evaluator.NewsStories' = evaluator.NewsStories \o Concat(Batches)
           /\ ClearTasksStep =>
                 /\ evaluator.NewsStories' = evaluator.NewsStories
                 /\ evaluator.NewsStories' = trace.base \o Concat(trace.batches)]_vars

\* a follow-up round of two scouts has ended on a collection that held
\* stories before it and holds two more after it
C30_Witness ==
    /\ stage = "evaluator"
    /\ evaluator.node = "llm"
    /\ trace.clear_runs = 1
    /\ trace.dispatched = 2
    /\ trace.curated # << >>
    /\ Len(evaluator.NewsStories) >= Len(trace.curated) + 3

(***************************************************************************)
(* Properties of the state handed between the stages.                      *)
(***************************************************************************)
\* C31 (as claimed): the agent and tool-result messages of a scout stay in
\* its own loop: a scout's history holds only the messages of its own agent
\* and tool steps, and the evaluator's messages never hold an agent or
\* tool-result message of a scout.
C31_TranscriptStaysInLoop ==
    /\ \A i \in ScoutIds :
          Len(scouts[i].messages) <= scouts[i].agent_calls + scouts[i].tool_runs
    /\ \A k \in 1..Len(evaluator.messages) :
          evaluator.messages[k].type \notin {"ai", "tool"}

\* C32 (as claimed): every scout instance, whether dispatched after the
\* planner or by the evaluator's router, runs with the run's config in its
\* state.
C32_EveryScoutHasConfig ==
    \A i \in ScoutIds : scouts[i].config

\* C33 (as claimed): each scout instance executes between 0 and 3 tool
\* calls in total, whatever its model answers: the number of tool calls it
\* has executed and its counter tool_iterations never exceed 3, and the
\* counter moves only in an after_tools step of that instance, by one, while
\* every other instance stays as it is.
C33_AtMostThreeToolCalls ==
    /\ [](\A i \in ScoutIds :
             /\ scouts[i].tool_runs \in 0..ToolIterationCap
             /\ Get(scouts[i].tool_iterations, 0) \in 0..ToolIterationCap)
    /\ [][\A i \in ScoutIds :
             (/\ Len(scouts') = Len(scouts)
              /\ scouts'[i].tool_iterations # scouts[i].tool_iterations) =>
                /\ scouts[i].node = "after_tools"
                /\ Get(scouts'[i].tool_iterations, 0)
                      = Get(scouts[i].tool_iterations, 0) + 1
                /\ \A j \in ScoutIds \ {i} : scouts'[j] = scouts[j]]_vars

\* C34: the pipeline state starts with no tasks, no stories and an empty
\* report (and nothing in the channels the evaluator node adds).  Only the writer's step changes Report, which is empty in every
\* state before it; only the planner's step changes ScoutTasks, which every
\* scout, evaluator and writer step leaves as planned.
C34_ReportAndTasksFrames ==
    /\ [](/\ stage = "planner" =>
                pipeline = InitialPipeline
          /\ stage \in {"planner", "scout", "evaluator", "writer"} =>
                pipeline.Report = ""
          /\ trace.writer_runs = 0 => pipeline.Report = ""
          /\ stage # "planner" => Len(pipeline.ScoutTasks) >= trace.planned)
    /\ [][/\ pipeline.Report' # pipeline.Report =>
                stage = "writer" /\ stage' = "end"
          /\ pipeline.ScoutTasks' # pipeline.ScoutTasks => stage = "planner"
          /\ (PlannerStep \/ ScoutFanIn \/ LlmStep \/ FollowupFanIn
                \/ ClearTasksStep \/ EvaluatorReturn) =>
                pipeline.Report' = "" /\ pipeline.Report = ""
          /\ (ScoutFanIn \/ LlmStep \/ FollowupFanIn \/ ClearTasksStep
                \/ EvaluatorReturn \/ WriterStep) =>
                pipeline.ScoutTasks' = pipeline.ScoutTasks]_vars

\* the writer has written the report of a run whose planner stored two tasks
C34_Witness ==
    /\ stage = "end"
    /\ trace.writer_runs = 1
    /\ pipeline.Report = "report"
    /\ Len(pipeline.ScoutTasks) = 2
    /\ pipeline.NewsStories # << >>

(***************************************************************************)
(* Properties of a failing model call.                                     *)
(***************************************************************************)
\* C35 (as claimed): when the structured-output call of final_step fails as
\* a model call (a transport or authentication error), final_step raises and
\* has made no second model call.
C35_NoCallAfterModelFailure ==
    (/\ stage = "final_step"
     /\ probe.result # << >>
     /\ probe.structured.raised
     /\ probe.structured.exception = "APIConnectionError") =>
        /\ ~probe.result[1].ok
        /\ probe.result[1].calls = 1

(***************************************************************************)
(* Assignments to a loaded configuration.  validate_assignment is set in   *)
(* the model_config of ThinkleConfig only: assigning a field of the        *)
(* top-level object validates the new value of that field, assigning a     *)
(* field of a nested section is a plain attribute assignment.              *)
(***************************************************************************)
\* config.max_tasks = value under validate_assignment: the value is checked
\* against the field's constraints and stored only when it passes
assign_max_tasks(self, value) ==
    IF value > 0 /\ value <= 10
    THEN [raised |-> FALSE, self |-> [self EXCEPT !.max_tasks = value]]
    ELSE [raised |-> TRUE, self |-> self]

AssignInit ==
    /\ stage = "assign"
    /\ config = [max_tasks |-> DefaultMaxTasks]
    /\ pipeline = InitialPipeline
    /\ scouts = << >>
    /\ evaluator = InitialEvaluator
    /\ fault_budget = 0
    /\ parallel_budget = 0
    /\ report_file = << >>
    /\ probe = [ self |-> load_config(NewParser(yaml_dump(
                             Document(<< <<"A">> >>, 1, [k \in 1..4 |-> TRUE],
                                      <<0, 1>>, <<0, 1>>, 1, "none")))).value[1],
                 raised |-> FALSE ]
    /\ trace = InitialTrace

\* config.max_tasks = value
AssignMaxTasks ==
    /\ stage = "assign"
    /\ \E value \in {0, 1, 10, 11} :
          probe' = assign_max_tasks(probe.self, value)
    /\ UNCHANGED <<stage, config, pipeline, scouts, evaluator, fault_budget, parallel_budget,
                   report_file, trace>>

\* config.newsletter.max_stories = value
AssignMaxStories ==
    /\ stage = "assign"
    /\ \E value \in {0, 1, 50, 51} :
          probe' = [raised |-> FALSE,
                    self |-> [probe.self EXCEPT !.newsletter.max_stories = value]]
    /\ UNCHANGED <<stage, config, pipeline, scouts, evaluator, fault_budget, parallel_budget,
                   report_file, trace>>

\* config.content.include_<source> = value
AssignSource ==
    /\ stage = "assign"
    /\ \E name \in {"include_academic", "include_reddit", "include_youtube",
                    "include_news"}, value \in BOOLEAN :
          probe' = [raised |-> FALSE,
                    self |-> [probe.self EXCEPT !.content[name] = value]]
    /\ UNCHANGED <<stage, config, pipeline, scouts, evaluator, fault_budget, parallel_budget,
                   report_file, trace>>

AssignNext ==
    \/ AssignMaxTasks
    \/ AssignMaxStories
    \/ AssignSource

AssignSpec == AssignInit /\ [][AssignNext]_vars

\* C36 (as claimed): after any sequence of assignments to fields of a loaded
\* configuration, fields of the nested sections included, the configuration
\* still satisfies the range limits and has a content source enabled (it
\* would validate as it stands).
C36_InvariantsSurviveAssignment ==
    stage = "assign" => ThinkleConfig(model_dump(probe.self)).errors = {}

\* C37: whenever an evaluation pass is about to start, the investigator-task
\* list of the evaluator state is empty, so no pass has ever added the
\* "InvestigatorTasks already completed" message to the model's input.
C37_TasksEmptyAtPassStart ==
    /\ (stage = "evaluator" /\ evaluator.node = "llm") =>
           evaluator.InvestigatorTasks = << >>
    /\ ~trace.already_completed

\* the second pass is about to start, after a follow-up round and CLEAR_CYCLE
C37_Witness ==
    /\ stage = "evaluator"
    /\ evaluator.node = "llm"
    /\ trace.llm_passes = 1
    /\ trace.clear_runs = 1
    /\ trace.proposed > 0
    /\ evaluator.InvestigatorTasks = << >>

\* C38: the investigator tasks returned by the second evaluation pass are
\* never dispatched: the step that completes the second pass ends the
\* evaluator stage without starting a scout, and from then on the stage is
\* ended with the returned tasks still in the investigator-task list and
\* followup_cycles = 1.
C38_SecondPassTasksNotDispatched ==
    /\ [](trace.llm_passes = 2 =>
             /\ EvaluatorEnded
             /\ scouts = << >>
             /\ trace.dispatched = 0
             /\ trace.followup_rounds = 1
             /\ Len(evaluator.InvestigatorTasks) = trace.proposed
             /\ followup_cycles = 1)
    /\ [][(trace.llm_passes = 1 /\ trace'.llm_passes = 2) =>
             /\ evaluator'.node = "end"
             /\ scouts' = << >>
             /\ evaluator'.followup_cycles = evaluator.followup_cycles]_vars

\* the second pass returned as many tasks as the model may return, and the
\* stage has ended with them
C38_Witness ==
    /\ trace.llm_passes = 2
    /\ evaluator.node = "end"
    /\ Len(evaluator.InvestigatorTasks) = MaxInvestigator
    /\ trace.proposed = MaxInvestigator
    /\ followup_cycles = 1
    /\ scouts = << >>

\* C39: when the planner returns an empty task list the fan-out dispatches no
\* scout and the run ends at once: no scout, evaluation pass or writer ever
\* runs, the story collection stays empty and the report stays the initial
\* empty string.
C39_EmptyPlanEndsRun ==
    /\ [][(stage = "planner" /\ stage' # "failed" /\ pipeline'.ScoutTasks = << >>) =>
             /\ stage' = "end"
             /\ scouts' = << >>]_vars
    /\ []((stage \in {"scout", "evaluator", "writer", "end"}
              /\ pipeline.ScoutTasks = << >>) =>
             /\ stage = "end"
             /\ scouts = << >>
             /\ trace.planned = 0
             /\ evaluator = InitialEvaluator
             /\ trace.llm_passes = 0
             /\ trace.writer_runs = 0
             /\ pipeline.NewsStories = << >>
             /\ pipeline.Report = ""
             /\ report_file \in {<< >>, <<"">>})

\* a run whose planner returned no task has ended and saved its report
C39_Witness ==
    /\ stage = "end"
    /\ pipeline.ScoutTasks = << >>
    /\ trace.planned = 0
    /\ trace.writer_runs = 0
    /\ evaluator.node = "idle"
    /\ report_file = <<"">>

====
